---- MODULE Spec2Model ----
(***************************************************************************)
(* rexif: extraction of EXIF metadata from JPEG and TIFF byte buffers.     *)
(*                                                                         *)
(* The repository holds several revisions of the same functions.  The      *)
(* directory walker modelled here is src/src/tiff.rs together with the     *)
(* callees of its revision (IfdEntry::copy_data with the ifd_data field,   *)
(* tag_value_new of ifdformat.rs, the registry of exif.rs); the newest     *)
(* entry builder and decoder (IfdEntry::into_exif_entry and TagValue::new  *)
(* of types_impl.rs) and the decoder of the monolithic revision (tag_value *)
(* of lib.rs) are modelled beside them.                                    *)
(*                                                                         *)
(* Byte buffers are sequences of numbers 0..255; Rust's 0-based half-open  *)
(* slice raw[a..b] is Sl(raw, a, b).  A panic of the Rust code (slice or   *)
(* index out of range, panic!) is the result kind "Panic".                 *)
(***************************************************************************)
EXTENDS Integers, Sequences, FiniteSets, TLC

VARIABLES contents, tiff, pc, le, offset, exif_entries, ifd, idx, result,
          mime, walked, postprocessed, fentry, built, decoded, descriptor

vars == <<contents, tiff, pc, le, offset, exif_entries, ifd, idx, result,
          mime, walked, postprocessed, fentry, built, decoded, descriptor>>

(***************************************************************************)
(* Helpers for Rust slices and vectors                                     *)
(***************************************************************************)
Sl(raw, a, b) == SubSeq(raw, a + 1, b)

RECURSIVE Flatten(_)
Flatten(ss) == IF ss = <<>> THEN <<>> ELSE Head(ss) \o Flatten(Tail(ss))

RECURSIVE Join(_, _)
Join(strs, sep) ==
    IF strs = <<>> THEN ""
    ELSE IF Len(strs) = 1 THEN strs[1]
    ELSE strs[1] \o sep \o Join(Tail(strs), sep)

(***************************************************************************)
(* lowlevel.rs: scalar and array readers                                   *)
(***************************************************************************)
read_i8(raw) == IF raw >= 128 THEN raw - 256 ELSE raw

read_u16(l, raw) ==
    IF l THEN raw[2] * 256 + raw[1] ELSE raw[1] * 256 + raw[2]

\* A variant of read_i16 without the reinterpretation of the sign bit.
read_i16_unsigned(l, raw) == read_u16(l, raw)

read_i16(l, raw) ==
    LET u == read_u16(l, raw) IN IF u >= 32768 THEN u - 65536 ELSE u

\* The model's buffers keep the most significant byte of every 32-bit field
\* below 0x80, so the sum stays inside TLC's integers; the Rust sum of four
\* disjoint byte lanes cannot overflow a u32.
read_u32(l, raw) ==
    IF l THEN raw[4] * 16777216 + raw[3] * 65536 + raw[2] * 256 + raw[1]
    ELSE raw[1] * 16777216 + raw[2] * 65536 + raw[3] * 256 + raw[4]

\* read_u32 for every four bytes, as the pair of the upper and the lower 16
\* bits of the u32 (a u32 from 0x80000000 on is no TLC integer).
read_u32_halves(l, raw) ==
    IF l THEN <<raw[4] * 256 + raw[3], raw[2] * 256 + raw[1]>>
    ELSE <<raw[1] * 256 + raw[2], raw[3] * 256 + raw[4]>>

\* read_i32: the u32 widened to i64, less 0x100000000 from 0x80000000 on
read_i32(l, raw) ==
    LET u == read_u32_halves(l, raw) IN
    IF u[1] >= 32768 THEN (u[1] - 65536) * 65536 + u[2]
    ELSE u[1] * 65536 + u[2]

read_urational(l, raw) ==
    <<read_u32(l, Sl(raw, 0, 4)), read_u32(l, Sl(raw, 4, 8))>>

read_irational(l, raw) ==
    <<read_i32(l, Sl(raw, 0, 4)), read_i32(l, Sl(raw, 4, 8))>>

\* read_*_array(le, count, raw): element i is read from raw[i*size..(i+1)*size].
\* The readers index raw without a check: the caller guards the length.
read_i8_array(count, raw) == [i \in 1..count |-> read_i8(raw[i])]
read_u16_array(l, count, raw) ==
    [i \in 1..count |-> read_u16(l, Sl(raw, (i - 1) * 2, i * 2))]
read_i16_array(l, count, raw) ==
    [i \in 1..count |-> read_i16(l, Sl(raw, (i - 1) * 2, i * 2))]
read_u32_array(l, count, raw) ==
    [i \in 1..count |-> read_u32(l, Sl(raw, (i - 1) * 4, i * 4))]
read_i32_array(l, count, raw) ==
    [i \in 1..count |-> read_i32(l, Sl(raw, (i - 1) * 4, i * 4))]
\* f32/f64 are the transmuted bytes: the value is kept as its bit pattern.
read_f32_array(count, raw) == [i \in 1..count |-> Sl(raw, (i - 1) * 4, i * 4)]
read_f64_array(count, raw) == [i \in 1..count |-> Sl(raw, (i - 1) * 8, i * 8)]
read_urational_array(l, count, raw) ==
    [i \in 1..count |-> read_urational(l, Sl(raw, (i - 1) * 8, i * 8))]
read_irational_array(l, count, raw) ==
    [i \in 1..count |-> read_irational(l, Sl(raw, (i - 1) * 8, i * 8))]

(***************************************************************************)
(* types_impl.rs: IfdFormat                                                *)
(***************************************************************************)
IfdFormat_new(n) ==
    CASE n = 1 -> "U8" [] n = 2 -> "Ascii" [] n = 3 -> "U16" [] n = 4 -> "U32"
      [] n = 5 -> "URational" [] n = 6 -> "I8" [] n = 7 -> "Undefined"
      [] n = 8 -> "I16" [] n = 9 -> "I32" [] n = 10 -> "IRational"
      [] n = 11 -> "F32" [] n = 12 -> "F64" [] OTHER -> "Unknown"

IfdFormat_size(format) ==
    CASE format \in {"U8", "Ascii", "I8", "Undefined", "Unknown"} -> 1
      [] format \in {"U16", "I16"} -> 2
      [] format \in {"U32", "I32", "F32"} -> 4
      [] format \in {"URational", "IRational", "F64"} -> 8

FixedWidth ==
    {"U8", "I8", "U16", "I16", "U32", "I32", "F32", "F64", "URational", "IRational"}

(***************************************************************************)
(* IfdEntry (record tag, format, count, data, ifd_data, ext_data, le)      *)
(***************************************************************************)
\* lib.rs 257-259: the inline 4 bytes read as a 32-bit offset
data_as_offset(f) == read_u32(f.le, Sl(f.ifd_data, 0, 4))

length(f) == IfdFormat_size(f.format) * f.count

in_ifd(f) == length(f) <= 4

\* The boolean copy_data returns: false when the out-of-line payload would
\* run past the end of the buffer.
copy_data_ok(f, buf) ==
    IF in_ifd(f) THEN TRUE
    ELSE ~(Len(buf) < data_as_offset(f) + length(f))

\* A variant of copy_data that keeps only length(f) of the inline bytes.
copy_data_trimmed(f, buf) ==
    IF in_ifd(f) THEN [f EXCEPT !.data = SubSeq(f.ifd_data, 1, length(f))]
    ELSE IF ~copy_data_ok(f, buf) THEN f
    ELSE LET ext == Sl(buf, data_as_offset(f), data_as_offset(f) + length(f))
         IN [f EXCEPT !.ext_data = ext, !.data = ext]

\* The entry after copy_data (the revision whose IfdEntry holds ifd_data):
\* data becomes the inline bytes, or the payload copied from the buffer; on
\* failure the entry is left as parse_ifd built it (data empty).
copy_data(f, buf) ==
    IF in_ifd(f) THEN [f EXCEPT !.data = f.ifd_data]
    ELSE IF ~copy_data_ok(f, buf) THEN f
    ELSE LET ext == Sl(buf, data_as_offset(f), data_as_offset(f) + length(f))
         IN [f EXCEPT !.ext_data = ext, !.data = ext]

\* types_impl.rs IfdEntry::copy_data, the revision that keeps the inline
\* bytes in data and reads the offset from data[0..4]: the entry after the
\* call, the boolean returned, and whether the slice data[0..4] panicked.
IfdEntry_copy_data(f, buf) ==
    IF in_ifd(f) THEN [entry |-> f, ok |-> TRUE, panic |-> FALSE]
    ELSE IF Len(f.data) < 4 THEN [entry |-> f, ok |-> FALSE, panic |-> TRUE]
    ELSE LET o == read_u32(f.le, Sl(f.data, 0, 4)) IN
         IF Len(buf) < o + length(f) THEN [entry |-> f, ok |-> FALSE, panic |-> FALSE]
         ELSE [entry |-> [f EXCEPT !.data = Sl(buf, o, o + length(f))],
               ok |-> TRUE, panic |-> FALSE]

(***************************************************************************)
(* TagValue: record kind, vals (the decoded array, or the raw bytes of     *)
(* Undefined / Unknown / Invalid), le, format, count (the last three are   *)
(* carried by Invalid; le also by Undefined and Unknown)                   *)
(***************************************************************************)
TV(kind, vals) ==
    [kind |-> kind, vals |-> vals, le |-> FALSE, format |-> "", count |-> 0]

TVle(kind, vals, l) ==
    [kind |-> kind, vals |-> vals, le |-> l, format |-> "", count |-> 0]

Invalid(f) ==
    [kind |-> "Invalid", vals |-> f.data, le |-> f.le, format |-> f.format,
     count |-> f.count]

\* A variant of the trimming loop that takes away one NUL only.
StripNul_once(d) ==
    IF Len(d) > 0 /\ d[Len(d)] = 0 THEN SubSeq(d, 1, Len(d) - 1) ELSE d

\* Ascii: the trailing NUL bytes are removed, there may be more than one
RECURSIVE StripNul(_)
StripNul(d) ==
    IF Len(d) > 0 /\ d[Len(d)] = 0 THEN StripNul(SubSeq(d, 1, Len(d) - 1)) ELSE d

\* String::from_utf8_lossy, to the sequence of code points: a well-formed
\* sequence of 1 to 4 bytes gives its code point; the bytes of an ill-formed
\* one, as far as they were accepted, give one U+FFFD.
Cont(d, i) == i <= Len(d) /\ d[i] >= 128 /\ d[i] <= 191

SecondOk(d) ==
    /\ Len(d) >= 2
    /\ CASE d[1] = 224 -> d[2] >= 160 /\ d[2] <= 191
         [] d[1] = 237 -> d[2] >= 128 /\ d[2] <= 159
         [] d[1] = 240 -> d[2] >= 144 /\ d[2] <= 191
         [] d[1] = 244 -> d[2] >= 128 /\ d[2] <= 143
         [] OTHER -> d[2] >= 128 /\ d[2] <= 191

Rest(d, n) == SubSeq(d, n + 1, Len(d))

RECURSIVE from_utf8_lossy(_)
from_utf8_lossy(d) ==
    IF d = <<>> THEN <<>>
    ELSE IF d[1] < 128 THEN <<d[1]>> \o from_utf8_lossy(Rest(d, 1))
    ELSE IF d[1] >= 194 /\ d[1] <= 223
         THEN IF Cont(d, 2)
              THEN <<(d[1] - 192) * 64 + (d[2] - 128)>> \o from_utf8_lossy(Rest(d, 2))
              ELSE <<65533>> \o from_utf8_lossy(Rest(d, 1))
    ELSE IF d[1] >= 224 /\ d[1] <= 239
         THEN IF ~SecondOk(d) THEN <<65533>> \o from_utf8_lossy(Rest(d, 1))
              ELSE IF ~Cont(d, 3) THEN <<65533>> \o from_utf8_lossy(Rest(d, 2))
              ELSE <<(d[1] - 224) * 4096 + (d[2] - 128) * 64 + (d[3] - 128)>>
                   \o from_utf8_lossy(Rest(d, 3))
    ELSE IF d[1] >= 240 /\ d[1] <= 244
         THEN IF ~SecondOk(d) THEN <<65533>> \o from_utf8_lossy(Rest(d, 1))
              ELSE IF ~Cont(d, 3) THEN <<65533>> \o from_utf8_lossy(Rest(d, 2))
              ELSE IF ~Cont(d, 4) THEN <<65533>> \o from_utf8_lossy(Rest(d, 3))
              ELSE <<(d[1] - 240) * 262144 + (d[2] - 128) * 4096
                        + (d[3] - 128) * 64 + (d[4] - 128)>>
                   \o from_utf8_lossy(Rest(d, 4))
    ELSE <<65533>> \o from_utf8_lossy(Rest(d, 1))

\* The array reader of a fixed-width format
ReadArray(f) ==
    CASE f.format = "U16" -> read_u16_array(f.le, f.count, f.data)
      [] f.format = "I16" -> read_i16_array(f.le, f.count, f.data)
      [] f.format = "U8" -> f.data
      [] f.format = "I8" -> read_i8_array(f.count, f.data)
      [] f.format = "U32" -> read_u32_array(f.le, f.count, f.data)
      [] f.format = "I32" -> read_i32_array(f.le, f.count, f.data)
      [] f.format = "F32" -> read_f32_array(f.count, f.data)
      [] f.format = "F64" -> read_f64_array(f.count, f.data)
      [] f.format = "URational" -> read_urational_array(f.le, f.count, f.data)
      [] f.format = "IRational" -> read_irational_array(f.le, f.count, f.data)

\* The length guard that precedes every fixed-width array read
TooShort(f) == Len(f.data) < f.count * IfdFormat_size(f.format)

\* The array readers slice raw[i*size..(i+1)*size] (read_i8_array indexes
\* raw[i]) for every i below count: they panic when raw is shorter.  U8 is a
\* clone of the data and reads nothing.
ReaderPanics(f) ==
    f.format # "U8" /\ Len(f.data) < f.count * IfdFormat_size(f.format)

Decode(f) == IF ReaderPanics(f) THEN TV("Panic", <<>>) ELSE TV(f.format, ReadArray(f))

\* types_impl.rs TagValue::new
TagValue_new(f) ==
    CASE f.format = "Ascii" -> TV("Ascii", from_utf8_lossy(StripNul(f.data)))
      [] f.format \in FixedWidth ->
            IF TooShort(f) THEN Invalid(f) ELSE Decode(f)
      [] f.format = "Undefined" -> TVle("Undefined", f.data, f.le)
      [] OTHER -> TVle("Unknown", f.data, f.le)

\* lib.rs tag_value: the decoder of the monolithic revision.  It has no
\* length guard and its TagValue has no Invalid variant; the string is not
\* trimmed at a NUL.
tag_value(f) ==
    CASE f.format = "Ascii" -> TV("Str", f.data)
      [] f.format \in FixedWidth -> Decode(f)
      [] f.format = "Undefined" -> TV("Undefined", f.data)
      [] OTHER -> TV("Unknown", f.data)

(***************************************************************************)
(* Readable strings.  A byte of an Ascii payload is shown by Chr; the      *)
(* numbers of an array by their decimal digits.                            *)
(***************************************************************************)
Chr(b) ==
    CASE b = 0 -> "\\0" [] b = 65 -> "A" [] b = 66 -> "B" [] b = 67 -> "C"
      [] OTHER -> "?"

Str(bytes) == Join([i \in 1..Len(bytes) |-> Chr(bytes[i])], "")

Display(kind, x) ==
    IF kind \notin {"URational", "IRational", "F32", "F64"} THEN ToString(x)
    ELSE IF kind \in {"URational", "IRational"} THEN ToString(x[1]) \o "/" \o ToString(x[2])
    ELSE "f" \o Join([i \in 1..Len(x) |-> ToString(x[i])], ".")

\* ifdformat.rs numarray_to_string / to_csv.rs: elements joined by ", "
numarray_to_string(kind, numbers) ==
    Join([i \in 1..Len(numbers) |-> Display(kind, numbers[i])], ", ")

\* ifdformat.rs tag_value_new: the TagValue and its crude readable string
tag_value_new(f) ==
    CASE f.format = "Ascii" ->
            <<TV("Ascii", from_utf8_lossy(StripNul(f.data))),
              Str(from_utf8_lossy(StripNul(f.data)))>>
      [] f.format \in FixedWidth ->
            IF TooShort(f) THEN <<Invalid(f), "Invalid">>
            ELSE <<Decode(f), numarray_to_string(f.format, Decode(f).vals)>>
      [] f.format = "Undefined" ->
            <<TVle("Undefined", f.data, f.le), numarray_to_string("U8", f.data)>>
      [] OTHER -> <<TVle("Unknown", f.data, f.le), "<unknown blob>">>

\* types_impl.rs, Display for TagValue
TagValue_fmt(v) ==
    CASE v.kind = "Ascii" -> Str(v.vals)
      [] v.kind = "Unknown" -> "<unknown blob>"
      [] v.kind = "Invalid" -> "Invalid"
      [] OTHER -> numarray_to_string(v.kind, v.vals)

(***************************************************************************)
(* exif.rs: the tag registry, every row of it.  min = max = -1 stands for  *)
(* "no count bounds"; the renderer is named, more_readable applies it.     *)
(***************************************************************************)
Row(tag, code, readable, unit, format, min, max, renderer) ==
    [tag |-> tag, code |-> code, tag_readable |-> readable, unit |-> unit,
     format |-> format, min |-> min, max |-> max, renderer |-> renderer]

\* A faulty variant of the lookup whose catch-all row has the format
\* Undefined: the property of C14 must tell it from the registry
tag_to_exif_undefined(t) ==
    IF t = 274
    THEN Row("Orientation", 274, "Orientation", "none", "U16", 1, 1, "orientation")
    ELSE Row("UnknownToMe", 65535,
             "Unknown to this library, or manufacturer-specific",
             "Unknown unit", "Undefined", -1, -1, "nop")

\* A faulty variant of the lookup whose Orientation row lost its count bounds
tag_to_exif_nobounds(t) ==
    IF t = 274
    THEN Row("Orientation", 274, "Orientation", "none", "U16", -1, -1, "orientation")
    ELSE Row("UnknownToMe", 65535,
             "Unknown to this library, or manufacturer-specific",
             "Unknown unit", "Unknown", -1, -1, "nop")

tag_to_exif(t) ==
    CASE t = 270 -> Row("ImageDescription", 270, "Image Description",
                "none", "Ascii", -1, -1, "strpass")
      [] t = 271 -> Row("Make", 271, "Manufacturer",
                "none", "Ascii", -1, -1, "strpass")
      [] t = 316 -> Row("HostComputer", 316, "Host computer",
                "none", "Ascii", -1, -1, "strpass")
      [] t = 272 -> Row("Model", 272, "Model",
                "none", "Ascii", -1, -1, "strpass")
      [] t = 274 -> Row("Orientation", 274, "Orientation",
                "none", "U16", 1, 1, "orientation")
      [] t = 282 -> Row("XResolution", 282, "X Resolution",
                "pixels per res unit", "URational", 1, 1, "rational_value")
      [] t = 283 -> Row("YResolution", 283, "Y Resolution",
                "pixels per res unit", "URational", 1, 1, "rational_value")
      [] t = 296 -> Row("ResolutionUnit", 296, "Resolution Unit",
                "none", "U16", 1, 1, "resolution_unit")
      [] t = 305 -> Row("Software", 305, "Software",
                "none", "Ascii", -1, -1, "strpass")
      [] t = 306 -> Row("DateTime", 306, "Image date",
                "none", "Ascii", -1, -1, "strpass")
      [] t = 318 -> Row("WhitePoint", 318, "White Point",
                "CIE 1931 coordinates", "URational", 2, 2, "rational_values")
      [] t = 319 -> Row("PrimaryChromaticities", 319, "Primary Chromaticities",
                "CIE 1931 coordinates", "URational", 6, 6, "rational_values")
      [] t = 529 -> Row("YCbCrCoefficients", 529, "YCbCr Coefficients",
                "none", "URational", 3, 3, "rational_values")
      [] t = 532 -> Row("ReferenceBlackWhite", 532, "Reference Black/White",
                "RGB or YCbCr", "URational", 6, 6, "rational_values")
      [] t = 33432 -> Row("Copyright", 33432, "Copyright",
                "none", "Ascii", -1, -1, "strpass")
      [] t = 34665 -> Row("ExifOffset", 34665, "This image has an Exif SubIFD",
                "byte offset", "U32", 1, 1, "strpass")
      [] t = 34853 -> Row("GPSOffset", 34853, "This image has a GPS SubIFD",
                "byte offset", "U32", 1, 1, "strpass")
      [] t = 33434 -> Row("ExposureTime", 33434, "Exposure time",
                "s", "URational", 1, 1, "exposure_time")
      [] t = 33437 -> Row("FNumber", 33437, "Aperture",
                "f-number", "URational", 1, 1, "f_number")
      [] t = 34850 -> Row("ExposureProgram", 34850, "Exposure program",
                "none", "U16", 1, 1, "exposure_program")
      [] t = 34852 -> Row("SpectralSensitivity", 34852, "Spectral sensitivity",
                "ASTM string", "Ascii", -1, -1, "strpass")
      [] t = 34855 -> Row("ISOSpeedRatings", 34855, "ISO speed ratings",
                "ISO", "U16", 1, 3, "iso_speeds")
      [] t = 34856 -> Row("OECF", 34856, "OECF",
                "none", "Undefined", -1, -1, "undefined_as_blob")
      [] t = 36864 -> Row("ExifVersion", 36864, "Exif version",
                "none", "Undefined", -1, -1, "undefined_as_ascii")
      [] t = 36867 -> Row("DateTimeOriginal", 36867, "Date of original image",
                "none", "Ascii", -1, -1, "strpass")
      [] t = 36868 -> Row("DateTimeDigitized", 36868, "Date of image digitalization",
                "none", "Ascii", -1, -1, "strpass")
      [] t = 37377 -> Row("ShutterSpeedValue", 37377, "Shutter speed",
                "APEX", "IRational", 1, 1, "apex_tv")
      [] t = 37378 -> Row("ApertureValue", 37378, "Aperture value",
                "APEX", "URational", 1, 1, "apex_av")
      [] t = 37379 -> Row("BrightnessValue", 37379, "Brightness value",
                "APEX", "IRational", 1, 1, "apex_brightness")
      [] t = 37380 -> Row("ExposureBiasValue", 37380, "Exposure bias value",
                "APEX", "IRational", 1, 1, "apex_ev")
      [] t = 37381 -> Row("MaxApertureValue", 37381, "Maximum aperture value",
                "APEX", "URational", 1, 1, "apex_av")
      [] t = 37382 -> Row("SubjectDistance", 37382, "Subject distance",
                "m", "URational", 1, 1, "meters")
      [] t = 37383 -> Row("MeteringMode", 37383, "Meteting mode",
                "none", "U16", 1, 1, "metering_mode")
      [] t = 37384 -> Row("LightSource", 37384, "Light source",
                "none", "U16", 1, 1, "light_source")
      [] t = 37385 -> Row("Flash", 37385, "Flash",
                "none", "U16", 1, 2, "flash")
      [] t = 37386 -> Row("FocalLength", 37386, "Focal length",
                "mm", "URational", 1, 1, "focal_length")
      [] t = 37396 -> Row("SubjectArea", 37396, "Subject area",
                "px", "U16", 2, 4, "subject_area")
      [] t = 37500 -> Row("MakerNote", 37500, "Maker note",
                "none", "Undefined", -1, -1, "undefined_as_blob")
      [] t = 37510 -> Row("UserComment", 37510, "User comment",
                "none", "Undefined", -1, -1, "undefined_as_encoded_string")
      [] t = 40960 -> Row("FlashPixVersion", 40960, "Flashpix version",
                "none", "Undefined", -1, -1, "undefined_as_ascii")
      [] t = 40961 -> Row("ColorSpace", 40961, "Color space",
                "none", "U16", 1, 1, "color_space")
      [] t = 40964 -> Row("RelatedSoundFile", 40964, "Related sound file",
                "none", "Ascii", -1, -1, "strpass")
      [] t = 41483 -> Row("FlashEnergy", 41483, "Flash energy",
                "BCPS", "URational", 1, 1, "flash_energy")
      [] t = 41486 -> Row("FocalPlaneXResolution", 41486, "Focal plane X resolution",
                "@FocalPlaneResolutionUnit", "URational", 1, 1, "rational_value")
      [] t = 41487 -> Row("FocalPlaneYResolution", 41487, "Focal plane Y resolution",
                "@FocalPlaneResolutionUnit", "URational", 1, 1, "rational_value")
      [] t = 41488 -> Row("FocalPlaneResolutionUnit", 41488, "Focal plane resolution unit",
                "none", "U16", 1, 1, "resolution_unit")
      [] t = 41492 -> Row("SubjectLocation", 41492, "Subject location",
                "X,Y", "U16", 2, 2, "subject_location")
      [] t = 41493 -> Row("ExposureIndex", 41493, "Exposure index",
                "EI", "URational", 1, 1, "rational_value")
      [] t = 41495 -> Row("SensingMethod", 41495, "Sensing method",
                "none", "U16", 1, 1, "sensing_method")
      [] t = 41728 -> Row("FileSource", 41728, "File source",
                "none", "Undefined", 1, 1, "file_source")
      [] t = 41729 -> Row("SceneType", 41729, "Scene type",
                "none", "Undefined", 1, 1, "scene_type")
      [] t = 41730 -> Row("CFAPattern", 41730, "CFA Pattern",
                "none", "Undefined", -1, -1, "undefined_as_u8")
      [] t = 41985 -> Row("CustomRendered", 41985, "Custom rendered",
                "none", "U16", 1, 1, "custom_rendered")
      [] t = 41986 -> Row("ExposureMode", 41986, "Exposure mode",
                "none", "U16", 1, 1, "exposure_mode")
      [] t = 41987 -> Row("WhiteBalanceMode", 41987, "White balance mode",
                "none", "U16", 1, 1, "white_balance_mode")
      [] t = 41988 -> Row("DigitalZoomRatio", 41988, "Digital zoom ratio",
                "none", "URational", 1, 1, "rational_value")
      [] t = 41989 -> Row("FocalLengthIn35mmFilm", 41989, "Equivalent focal length in 35mm",
                "mm", "U16", 1, 1, "focal_length_35")
      [] t = 41990 -> Row("SceneCaptureType", 41990, "Scene capture type",
                "none", "U16", 1, 1, "scene_capture_type")
      [] t = 41991 -> Row("GainControl", 41991, "Gain control",
                "none", "U16", 1, 1, "gain_control")
      [] t = 41992 -> Row("Contrast", 41992, "Contrast",
                "none", "U16", 1, 1, "contrast")
      [] t = 41993 -> Row("Saturation", 41993, "Saturation",
                "none", "U16", 1, 1, "saturation")
      [] t = 41994 -> Row("Sharpness", 41994, "Sharpness",
                "none", "U16", 1, 1, "sharpness")
      [] t = 42034 -> Row("LensSpecification", 42034, "Lens specification",
                "none", "URational", 4, 4, "lens_spec")
      [] t = 42035 -> Row("LensMake", 42035, "Lens manufacturer",
                "none", "Ascii", -1, -1, "strpass")
      [] t = 42036 -> Row("LensModel", 42036, "Lens model",
                "none", "Ascii", -1, -1, "strpass")
      [] t = 41995 -> Row("DeviceSettingDescription", 41995, "Device setting description",
                "none", "Undefined", -1, -1, "undefined_as_blob")
      [] t = 41996 -> Row("SubjectDistanceRange", 41996, "Subject distance range",
                "none", "U16", 1, 1, "subject_distance_range")
      [] t = 42016 -> Row("ImageUniqueID", 42016, "Image unique ID",
                "none", "Ascii", -1, -1, "strpass")
      [] t = 0 -> Row("GPSVersionID", 0, "GPS version ID",
                "none", "U8", 4, 4, "strpass")
      [] t = 1 -> Row("GPSLatitudeRef", 1, "GPS latitude ref",
                "none", "Ascii", -1, -1, "strpass")
      [] t = 2 -> Row("GPSLatitude", 2, "GPS latitude",
                "D/M/S", "URational", 3, 3, "dms")
      [] t = 3 -> Row("GPSLongitudeRef", 3, "GPS longitude ref",
                "none", "Ascii", -1, -1, "strpass")
      [] t = 4 -> Row("GPSLongitude", 4, "GPS longitude",
                "D/M/S", "URational", 3, 3, "dms")
      [] t = 5 -> Row("GPSAltitudeRef", 5, "GPS altitude ref",
                "none", "U8", 1, 1, "gps_alt_ref")
      [] t = 6 -> Row("GPSAltitude", 6, "GPS altitude",
                "m", "URational", 1, 1, "meters")
      [] t = 7 -> Row("GPSTimeStamp", 7, "GPS timestamp",
                "UTC time", "URational", 3, 3, "gpstimestamp")
      [] t = 8 -> Row("GPSSatellites", 8, "GPS satellites",
                "none", "Ascii", -1, -1, "strpass")
      [] t = 9 -> Row("GPSStatus", 9, "GPS status",
                "none", "Ascii", -1, -1, "gpsstatus")
      [] t = 10 -> Row("GPSMeasureMode", 10, "GPS measure mode",
                "none", "Ascii", -1, -1, "gpsmeasuremode")
      [] t = 11 -> Row("GPSDOP", 11, "GPS Data Degree of Precision (DOP)",
                "none", "URational", 1, 1, "rational_value")
      [] t = 12 -> Row("GPSSpeedRef", 12, "GPS speed ref",
                "none", "Ascii", -1, -1, "gpsspeedref")
      [] t = 13 -> Row("GPSSpeed", 13, "GPS speed",
                "@GPSSpeedRef", "URational", 1, 1, "gpsspeed")
      [] t = 14 -> Row("GPSTrackRef", 14, "GPS track ref",
                "none", "Ascii", -1, -1, "gpsbearingref")
      [] t = 15 -> Row("GPSTrack", 15, "GPS track",
                "deg", "URational", 1, 1, "gpsbearing")
      [] t = 16 -> Row("GPSImgDirectionRef", 16, "GPS image direction ref",
                "none", "Ascii", -1, -1, "gpsbearingref")
      [] t = 17 -> Row("GPSImgDirection", 17, "GPS image direction",
                "deg", "URational", 1, 1, "gpsbearing")
      [] t = 18 -> Row("GPSMapDatum", 18, "GPS map datum",
                "none", "Ascii", -1, -1, "strpass")
      [] t = 19 -> Row("GPSDestLatitudeRef", 19, "GPS destination latitude ref",
                "none", "Ascii", -1, -1, "strpass")
      [] t = 20 -> Row("GPSDestLatitude", 20, "GPS destination latitude",
                "D/M/S", "URational", 3, 3, "dms")
      [] t = 21 -> Row("GPSDestLongitudeRef", 21, "GPS destination longitude ref",
                "none", "Ascii", -1, -1, "strpass")
      [] t = 22 -> Row("GPSDestLongitude", 22, "GPS destination longitude",
                "D/M/S", "URational", 3, 3, "dms")
      [] t = 23 -> Row("GPSDestBearingRef", 23, "GPS destination bearing ref",
                "none", "Ascii", -1, -1, "gpsbearingref")
      [] t = 24 -> Row("GPSDestBearing", 24, "GPS destination bearing",
                "deg", "URational", 1, 1, "gpsbearing")
      [] t = 25 -> Row("GPSDestDistanceRef", 25, "GPS destination distance ref",
                "none", "Ascii", -1, -1, "gpsdestdistanceref")
      [] t = 26 -> Row("GPSDestDistance", 26, "GPS destination distance",
                "@GPSDestDistanceRef", "URational", 1, 1, "gpsdestdistance")
      [] t = 27 -> Row("GPSProcessingMethod", 27, "GPS processing method",
                "none", "Undefined", -1, -1, "undefined_as_encoded_string")
      [] t = 28 -> Row("GPSAreaInformation", 28, "GPS area information",
                "none", "Undefined", -1, -1, "undefined_as_encoded_string")
      [] t = 29 -> Row("GPSDateStamp", 29, "GPS date stamp",
                "none", "Ascii", -1, -1, "strpass")
      [] t = 30 -> Row("GPSDifferential", 30, "GPS differential",
                "none", "U16", 1, 1, "gpsdiff")
      [] OTHER -> Row("UnknownToMe", 65535,
                "Unknown to this library, or manufacturer-specific",
                "Unknown unit", "Unknown", -1, -1, "nop")

(***************************************************************************)
(* exifreadable.rs: the renderers.  A renderer returns its string, or      *)
(* panics: on a TagValue variant other than the one of its format, and on  *)
(* v[0] of an empty array.                                                 *)
(***************************************************************************)
Rendered(s) == [panic |-> FALSE, s |-> s]
RenderPanic == [panic |-> TRUE, s |-> ""]

\* A faulty variant of orientation, with the texts of 6 and 8 exchanged: the
\* property of C7 must tell it from the renderer
orientation_swapped(e) ==
    IF e.kind # "U16" \/ Len(e.vals) = 0 THEN RenderPanic
    ELSE LET n == e.vals[1] IN
         Rendered(CASE n = 1 -> "Straight" [] n = 3 -> "Upside down"
                    [] n = 6 -> "Rotated to right" [] n = 8 -> "Rotated to left"
                    [] n = 9 -> "Undefined"
                    [] OTHER -> "Unknown (" \o ToString(n) \o ")")

orientation(e) ==
    IF e.kind # "U16" \/ Len(e.vals) = 0 THEN RenderPanic
    ELSE LET n == e.vals[1] IN
         Rendered(CASE n = 1 -> "Straight" [] n = 3 -> "Upside down"
                    [] n = 6 -> "Rotated to left" [] n = 8 -> "Rotated to right"
                    [] n = 9 -> "Undefined"
                    [] OTHER -> "Unknown (" \o ToString(n) \o ")")

resolution_unit(e) ==
    IF e.kind # "U16" \/ Len(e.vals) = 0 THEN RenderPanic
    ELSE LET n == e.vals[1] IN
         Rendered(CASE n = 1 -> "Unitless" [] n = 2 -> "in" [] n = 3 -> "cm"
                    [] OTHER -> "Unknown (" \o ToString(n) \o ")")

iso_speeds(e) ==
    IF e.kind # "U16" THEN RenderPanic
    ELSE Rendered(
         IF Len(e.vals) = 1 THEN "ISO " \o ToString(e.vals[1])
         ELSE IF Len(e.vals) = 2 \/ Len(e.vals) = 3
              THEN "ISO " \o ToString(e.vals[1]) \o " latitude " \o ToString(e.vals[2])
         ELSE "Unknown (" \o numarray_to_string("U16", e.vals) \o ")")

\* A variant of flash that takes bit 4 for the "no flash" bit.
flash_bit4(e) ==
    IF e.kind # "U16" \/ Len(e.vals) = 0 THEN RenderPanic
    ELSE LET n == e.vals[1] IN
         IF (n \div 16) % 2 = 1 THEN Rendered("Does not have a flash.")
         ELSE Rendered(IF n % 2 = 1 THEN "Fired. " ELSE "Did not fire. ")

\* flash: the bit fields of the first number.  b12 is also the variable the
\* "Auto mode. " text is assigned to.
flash(e) ==
    IF e.kind # "U16" \/ Len(e.vals) = 0 THEN RenderPanic
    ELSE LET n == e.vals[1]
             fired == n % 2 = 1
             m12 == (n \div 2) % 4
             m34 == (n \div 8) % 4
             b0 == IF fired THEN "Fired. " ELSE "Did not fire. "
             b6 == IF ~fired THEN ""
                   ELSE IF (n \div 64) % 2 = 1 THEN "Redeye reduction. "
                   ELSE "No redeye reduction. "
             strobe == IF fired /\ m12 = 2 THEN "Strobe ret not detected. "
                       ELSE IF fired /\ m12 = 3 THEN "Strobe ret detected. "
                       ELSE ""
             b34 == IF m34 = 1 THEN "Forced fire. "
                    ELSE IF m34 = 2 THEN "Forced suppresion. "
                    ELSE ""
             b12 == IF m34 = 3 THEN "Auto mode. " ELSE strobe
         IN IF (n \div 32) % 2 = 1 THEN Rendered("Does not have a flash.")
            ELSE Rendered(b0 \o b12 \o b34 \o b6)

\* {:.0} and {:.1} of the quotient num/den, den > 0: the nearest decimal,
\* a tie going to the even digit
RoundHalfEven(num, den) ==
    LET q == num \div den
        r2 == 2 * (num % den)
    IN IF r2 > den \/ (r2 = den /\ q % 2 = 1) THEN q + 1 ELSE q

Fixed0(num, den) == ToString(RoundHalfEven(num, den))

Fixed1(num, den) ==
    LET t == RoundHalfEven(10 * num, den)
    IN ToString(t \div 10) \o "." \o ToString(t % 10)

\* A variant of exposure_time without the branch of the traditional 1/x
\* times.
exposure_time_nofraction(e) ==
    IF e.kind # "URational" \/ Len(e.vals) = 0 THEN RenderPanic
    ELSE LET n == e.vals[1][1]
             d == e.vals[1][2]
         IN Rendered(
              IF n >= d /\ d > 0 THEN Fixed1(n, d) \o " s"
              ELSE IF d = 0 \/ n = 0 THEN "inf s"
              ELSE "1/" \o Fixed1(d, n) \o " s")

\* exposure_time.  value() is numerator / denominator in floating point:
\* NaN for 0/0 and infinite for n/0, which are below no threshold; 1.0 / 0.0
\* is infinite.
exposure_time(e) ==
    IF e.kind # "URational" \/ Len(e.vals) = 0 THEN RenderPanic
    ELSE LET n == e.vals[1][1]
             d == e.vals[1][2]
         IN Rendered(
              IF n = 1 /\ d > 1 THEN Display("URational", e.vals[1]) \o " s"
              ELSE IF d = 0 THEN (IF n = 0 THEN "NaN s" ELSE "inf s")
              ELSE IF 10 * n < d
                   THEN "1/" \o (IF n = 0 THEN "inf" ELSE Fixed0(d, n)) \o " s"
              ELSE IF n < d THEN "1/" \o Fixed1(d, n) \o " s"
              ELSE Fixed1(n, d) \o " s")

\* nop and strpass: format!("{}", e)
strpass(e) == Rendered(TagValue_fmt(e))

\* The renderers of the rows that the model's buffers hold are modelled;
\* no buffer or entry of the model holds a tag with another renderer.
more_readable(renderer, e) ==
    CASE renderer = "orientation" -> orientation(e)
      [] renderer = "flash" -> flash(e)
      [] renderer = "exposure_time" -> exposure_time(e)
      [] renderer = "resolution_unit" -> resolution_unit(e)
      [] renderer = "iso_speeds" -> iso_speeds(e)
      [] OTHER -> strpass(e)

(***************************************************************************)
(* Building an ExifEntry from an IfdEntry.  The record has the fields of   *)
(* the struct and two observers: rendered (the registry's renderer was     *)
(* invoked on the value) and panicked (the call did not return).           *)
(***************************************************************************)
HexDigit(d) ==
    CASE d < 10 -> ToString(d) [] d = 10 -> "a" [] d = 11 -> "b" [] d = 12 -> "c"
      [] d = 13 -> "d" [] d = 14 -> "e" [] OTHER -> "f"

RECURSIVE Hex(_)
Hex(n) == IF n < 16 THEN HexDigit(n) ELSE Hex(n \div 16) \o HexDigit(n % 16)

\* The registry's internal consistency check, the "Internal error" panic
InternalError(row, f) ==
    \/ row.code # f.tag
    \/ (row.min = -1 /\ row.format \notin {"Ascii", "Undefined", "Unknown"})
    \/ (row.min # -1 /\ row.format = "Ascii")

CountOutOfBounds(row, f) ==
    row.min # -1 /\ (f.count < row.min \/ f.count > row.max)

\* tiff.rs parse_exif_entry
parse_exif_entry(f) ==
    LET tv == tag_value_new(f)
        row == tag_to_exif(f.tag)
        e == [ifd |-> f, tag |-> "UnknownToMe", value |-> tv[1], unit |-> "Unknown",
              tag_readable |-> "Unparsed tag " \o Hex(f.tag),
              value_readable |-> tv[2], value_more_readable |-> tv[2],
              rendered |-> FALSE, panicked |-> (tv[1].kind = "Panic")]
        r == more_readable(row.renderer, tv[1])
    IN  IF e.panicked THEN e
        ELSE IF row.tag = "UnknownToMe" THEN e
        ELSE IF InternalError(row, f) THEN [e EXCEPT !.panicked = TRUE]
        ELSE IF row.format # f.format THEN e
        ELSE IF CountOutOfBounds(row, f) THEN e
        ELSE [e EXCEPT !.tag = row.tag, !.tag_readable = row.tag_readable,
                       !.unit = row.unit, !.value_more_readable = r.s,
                       !.rendered = TRUE, !.panicked = r.panic]

\* types_impl.rs are_format_count_bounds_valid
are_format_count_bounds_valid(format, min) ==
    CASE format = "Ascii" -> min = -1
      [] format \in {"Undefined", "Unknown"} -> TRUE
      [] OTHER -> min # -1

\* types_impl.rs IfdEntry::into_exif_entry: the value is decoded and the
\* registry's renderer is applied to it first; the format and count checks
\* that follow only print a warning.  The ExifEntry of this revision has no
\* unit, tag_readable and value_readable: they are left empty.
into_exif_entry(f) ==
    LET row == tag_to_exif(f.tag)
        value == TagValue_new(f)
        r == more_readable(row.renderer, value)
        known == row.tag # "UnknownToMe"
        tagval == IF known THEN row.code ELSE f.tag
    IN  [ifd |-> f, tag |-> row.tag, value |-> value,
         unit |-> "", tag_readable |-> "", value_readable |-> "",
         value_more_readable |-> r.s, rendered |-> (value.kind # "Panic"),
         panicked |-> \/ value.kind = "Panic"
                      \/ r.panic
                      \/ tagval # f.tag
                      \/ ~are_format_count_bounds_valid(row.format, row.min)]

(***************************************************************************)
(* exifpost.rs: cross-tag postprocessing                                   *)
(***************************************************************************)
\* entry_for_tag: the first entry of the list with the tag, or none
HasTag(tag, entries) == \E i \in 1..Len(entries) : entries[i].tag = tag

entry_for_tag(tag, entries) ==
    entries[CHOOSE i \in 1..Len(entries) :
                /\ entries[i].tag = tag
                /\ \A j \in 1..(i - 1) : entries[j].tag # tag]

\* A variant of postprocess_entry that takes the last sibling of the list
\* instead of the first one.
postprocess_entry_last(entry, entries, tag, join_text) ==
    IF HasTag(tag, entries)
    THEN LET k == CHOOSE i \in 1..Len(entries) :
                      /\ entries[i].tag = tag
                      /\ \A j \in (i + 1)..Len(entries) : entries[j].tag # tag
         IN [entry EXCEPT !.value_more_readable =
                 @ \o join_text \o entries[k].value_more_readable]
    ELSE entry

postprocess_entry(entry, entries, tag, join_text) ==
    IF HasTag(tag, entries)
    THEN [entry EXCEPT !.value_more_readable =
              @ \o join_text \o entry_for_tag(tag, entries).value_more_readable]
    ELSE entry

\* A variant of the GPSAltitude arm that also says "above sea level".
gps_altitude_post_above(entry, entries) ==
    IF ~HasTag("GPSAltitudeRef", entries) THEN entry
    ELSE LET fv == entry_for_tag("GPSAltitudeRef", entries).value IN
         IF fv.kind # "U8" THEN entry
         ELSE IF Len(fv.vals) = 0 THEN [entry EXCEPT !.panicked = TRUE]
         ELSE IF fv.vals[1] # 0
              THEN [entry EXCEPT !.value_more_readable = @ \o " below sea level"]
         ELSE [entry EXCEPT !.value_more_readable = @ \o " above sea level"]

gps_altitude_post(entry, entries) ==
    IF ~HasTag("GPSAltitudeRef", entries) THEN entry
    ELSE LET fv == entry_for_tag("GPSAltitudeRef", entries).value IN
         IF fv.kind # "U8" THEN entry
         ELSE IF Len(fv.vals) = 0 THEN [entry EXCEPT !.panicked = TRUE]
         ELSE IF fv.vals[1] # 0
              THEN [entry EXCEPT !.value_more_readable = @ \o " below sea level"]
         ELSE entry

\* A variant of exif_postprocessing that marks a resolution whose unit is
\* absent and leaves every other entry alone.
exif_postprocessing_placeholder(entry, entries) ==
    IF entry.tag \in {"XResolution", "YResolution"}
    THEN IF HasTag("ResolutionUnit", entries)
         THEN postprocess_entry(entry, entries, "ResolutionUnit", " pixels per ")
         ELSE [entry EXCEPT !.value_more_readable = @ \o " pixels per ?"]
    ELSE entry

exif_postprocessing(entry, entries) ==
    CASE entry.tag \in {"XResolution", "YResolution"} ->
            postprocess_entry(entry, entries, "ResolutionUnit", " pixels per ")
      [] entry.tag \in {"FocalPlaneXResolution", "FocalPlaneYResolution"} ->
            postprocess_entry(entry, entries, "FocalPlaneResolutionUnit", " pixels per ")
      [] entry.tag = "GPSLatitude" ->
            postprocess_entry(entry, entries, "GPSLatitudeRef", " ")
      [] entry.tag = "GPSLongitude" ->
            postprocess_entry(entry, entries, "GPSLongitudeRef", " ")
      [] entry.tag = "GPSAltitude" -> gps_altitude_post(entry, entries)
      [] entry.tag = "GPSDestLatitude" ->
            postprocess_entry(entry, entries, "GPSDestLatitudeRef", " ")
      [] entry.tag = "GPSDestLongitude" ->
            postprocess_entry(entry, entries, "GPSDestLongitudeRef", " ")
      [] entry.tag = "GPSDestDistance" ->
            postprocess_entry(entry, entries, "GPSDestDistanceRef", " ")
      [] entry.tag = "GPSSpeed" ->
            postprocess_entry(entry, entries, "GPSSpeedRef", " ")
      [] OTHER -> entry

(***************************************************************************)
(* tiff.rs: the directory walker                                           *)
(***************************************************************************)
\* parse_ifd: the count 12-byte records of a directory, in physical order.
\* data is empty until copy_data fills it.
parse_ifd(l, count, buf) ==
    [i \in 1..count |->
        LET o == (i - 1) * 12 IN
        [tag |-> read_u16(l, Sl(buf, o, o + 2)),
         format |-> IfdFormat_new(read_u16(l, Sl(buf, o + 2, o + 4))),
         count |-> read_u32(l, Sl(buf, o + 4, o + 8)),
         ifd_data |-> Sl(buf, o + 8, o + 12),
         le |-> l, ext_data |-> <<>>, data |-> <<>>]]

\* The loop of parse_exif_ifd: copy_data (its result is not looked at), then
\* parse_exif_entry, then push.  A panic ends the loop.
RECURSIVE push_entries(_, _, _)
push_entries(recs, buf, acc) ==
    IF recs = <<>> THEN [panic |-> FALSE, entries |-> acc]
    ELSE LET e == parse_exif_entry(copy_data(Head(recs), buf)) IN
         IF e.panicked THEN [panic |-> TRUE, entries |-> acc]
         ELSE push_entries(Tail(recs), buf, Append(acc, e))

\* A call's outcome: Ok with the entries (and, from parse_buffer, the MIME
\* type), Err with the error kind and its text, or a panic
Ok(entries) ==
    [kind |-> "Ok", err |-> "", extra |-> "", mime |-> "", entries |-> entries]
Err(err, extra) ==
    [kind |-> "Err", err |-> err, extra |-> extra, mime |-> "", entries |-> <<>>]
Panic(where) ==
    [kind |-> "Panic", err |-> "", extra |-> where, mime |-> "", entries |-> <<>>]
None == [kind |-> "None", err |-> "", extra |-> "", mime |-> "", entries |-> <<>>]

\* parse_exif_ifd(le, contents, ioffset, exif_entries): the outcome, and in
\* entries the value of exif_entries after the call
parse_exif_ifd(l, buf, ioffset, acc) ==
    IF Len(buf) < ioffset + 2
    THEN [Err("ExifIfdTruncated", "Truncated at dir entry count") EXCEPT !.entries = acc]
    ELSE LET count == read_u16(l, Sl(buf, ioffset, ioffset + 2))
             ifd_length == count * 12
         IN IF Len(buf) < ioffset + 2 + ifd_length
            THEN [Err("ExifIfdTruncated", "Truncated at dir listing") EXCEPT !.entries = acc]
            ELSE LET recs == parse_ifd(l, count,
                                 Sl(buf, ioffset + 2, ioffset + 2 + ifd_length))
                     w == push_entries(recs, buf, acc)
                 IN IF w.panic
                    THEN [Panic("parse_exif_entry") EXCEPT !.entries = w.entries]
                    ELSE Ok(w.entries)

ExifOffset == 34665
GPSOffset == 34853

(***************************************************************************)
(* image.rs: container sniffing and the JPEG marker scan                   *)
(***************************************************************************)
detect_type(c) ==
    IF Len(c) < 11 THEN ""
    ELSE IF /\ c[1] = 255 /\ c[2] = 216 /\ c[3] = 255
            /\ Sl(c, 6, 11) = <<74, 70, 73, 70, 0>>
         THEN "image/jpeg"
    ELSE IF /\ c[1] = 255 /\ c[2] = 216 /\ c[3] = 255
            /\ Sl(c, 6, 11) = <<69, 120, 105, 102, 0>>
         THEN "image/jpeg"
    ELSE IF Sl(c, 0, 4) = <<73, 73, 42, 0>> THEN "image/tiff"
    ELSE IF Sl(c, 0, 4) = <<77, 77, 0, 42>> THEN "image/tiff"
    ELSE ""

Scan(kind, o, size, extra) == [kind |-> kind, offset |-> o, size |-> size, extra |-> extra]

\* The Exif preamble test of the 0xFFE1 branch: the segment is refused only
\* when every one of the six bytes differs from the byte expected there.
preamble_refused(c, o) ==
    /\ c[o + 1] # 69 /\ c[o + 2] # 120 /\ c[o + 3] # 105
    /\ c[o + 4] # 102 /\ c[o + 5] # 0 /\ c[o + 6] # 0

\* A faulty variant of the loop body that takes 0xFFDA for an ordinary
\* segment and does not test the size word: the property of C8 must tell it
\* from the scan
jpeg_step_lenient(c, o) ==
    IF Len(c) < o + 4 THEN Scan("Err", 0, 0, "JPEG truncated in marker header")
    ELSE LET marker == c[o + 1] * 256 + c[o + 2]
             size == c[o + 3] * 256 + c[o + 4]
         IN IF marker < 65280 THEN Scan("Err", 0, 0, "Invalid marker " \o Hex(marker))
            ELSE IF Len(c) < o + 2 + size
                 THEN Scan("Err", 0, 0, "JPEG truncated in marker body")
            ELSE IF marker = 65505 /\ size >= 8 /\ ~preamble_refused(c, o + 4)
                 THEN Scan("Ok", o + 4 + 6, size - 2 - 6, "")
            ELSE Scan("Next", o + 2 + IF size < 2 THEN 2 ELSE size, 0, "")

\* A faulty variant of the loop body without the test of the size word: a
\* size below 2 moves the scan on by less than a segment header
jpeg_step_nosizetest(c, o) ==
    IF Len(c) < o + 4 THEN Scan("Err", 0, 0, "JPEG truncated in marker header")
    ELSE LET marker == c[o + 1] * 256 + c[o + 2]
             size == c[o + 3] * 256 + c[o + 4]
         IN IF marker < 65280 THEN Scan("Err", 0, 0, "Invalid marker " \o Hex(marker))
            ELSE IF Len(c) < o + 2 + size
                 THEN Scan("Err", 0, 0, "JPEG truncated in marker body")
            ELSE IF marker = 65505
                 THEN Scan("Err", 0, 0, "EXIF preamble truncated")
            ELSE IF marker = 65498 THEN Scan("Err", 0, 0, "Last mark found and no EXIF")
            ELSE Scan("Next", o + 2 + size, 0, "")

\* One iteration of the while loop of find_embedded_tiff_in_jpeg, entered
\* with offset < contents.len(): "Err", "Ok" (offset, size) or "Next"
\* (the loop goes on at offset).
jpeg_step(c, o) ==
    IF Len(c) < o + 4 THEN Scan("Err", 0, 0, "JPEG truncated in marker header")
    ELSE LET marker == c[o + 1] * 256 + c[o + 2]
             size == c[o + 3] * 256 + c[o + 4]
         IN IF marker < 65280 THEN Scan("Err", 0, 0, "Invalid marker " \o Hex(marker))
            ELSE IF size < 2
                 THEN Scan("Err", 0, 0,
                      "JPEG marker size must be at least 2 (because of the size word)")
            ELSE IF Len(c) < o + 2 + size
                 THEN Scan("Err", 0, 0, "JPEG truncated in marker body")
            ELSE IF marker = 65505
                 THEN IF size - 2 < 6 THEN Scan("Err", 0, 0, "EXIF preamble truncated")
                      ELSE IF preamble_refused(c, o + 4)
                           THEN Scan("Err", 0, 0, "EXIF preamble unrecognized")
                      ELSE Scan("Ok", o + 4 + 6, size - 2 - 6, "")
            ELSE IF marker = 65498 THEN Scan("Err", 0, 0, "Last mark found and no EXIF")
            ELSE Scan("Next", o + 2 + size, 0, "")

(***************************************************************************)
(* Input buffers.  A TIFF image is laid out as preamble, IFD0 at offset 8, *)
(* the next-IFD field, an optional second directory, an optional payload   *)
(* area, and is then cut short by 0..MaxCut bytes.                         *)
(***************************************************************************)
MaxEntries == 2
MaxCut == 5

U16B(l, n) == IF l THEN <<n % 256, n \div 256>> ELSE <<n \div 256, n % 256>>
U32B(l, n) ==
    IF l THEN <<n % 256, (n \div 256) % 256, (n \div 65536) % 256, n \div 16777216>>
    ELSE <<n \div 16777216, (n \div 65536) % 256, (n \div 256) % 256, n % 256>>

Rec(l, tag, fmt, count, val4) == U16B(l, tag) \o U16B(l, fmt) \o U32B(l, count) \o val4

Ifd0Pool == {"orient6", "orient_cnt2", "iso3", "descr", "exifptr", "gpsptr",
             "farptr", "unknown"}
SubPool == {"orient_u8", "iso3", "descr", "exifptr"}

\* The 12 bytes of a named record; S is the offset of the second directory,
\* P the offset of the payload area
RecBytes(l, name, S, P) ==
    CASE name = "orient6" -> Rec(l, 274, 3, 1, U16B(l, 6) \o <<0, 0>>)
      [] name = "orient_cnt2" -> Rec(l, 274, 3, 2, U16B(l, 6) \o U16B(l, 1))
      [] name = "orient_u8" -> Rec(l, 274, 1, 1, <<6, 0, 0, 0>>)
      [] name = "iso3" -> Rec(l, 34855, 3, 3, U32B(l, P))
      [] name = "descr" -> Rec(l, 270, 2, 6, U32B(l, P))
      [] name = "exifptr" -> Rec(l, ExifOffset, 4, 1, U32B(l, S))
      [] name = "gpsptr" -> Rec(l, GPSOffset, 4, 1, U32B(l, S))
      [] name = "farptr" -> Rec(l, ExifOffset, 4, 1, U32B(l, 28672))
      [] name = "unknown" -> Rec(l, 4660, 13, 1, <<1, 2, 3, 4>>)
      [] name = "nikonver" -> Rec(l, 1, 7, 4, <<48, 50, 49, 49>>)

PayloadBytes == <<65, 0, 66, 0, 0, 0>>

Preamble(l) == IF l THEN <<73, 73, 42, 0>> ELSE <<77, 77, 0, 42>>

\* names: the records of IFD0; sub: <<>> (no second directory) or <<recs>>
TiffBytes(l, names, sub, payload) ==
    LET n == Len(names)
        S == 8 + 2 + 12 * n + 4
        P == S + (IF sub = <<>> THEN 0 ELSE 2 + 12 * Len(sub[1]))
    IN  Preamble(l) \o U32B(l, 8) \o U16B(l, n)
        \o Flatten([i \in 1..n |-> RecBytes(l, names[i], S, P)])
        \o <<0, 0, 0, 0>>
        \o (IF sub = <<>> THEN <<>>
            ELSE U16B(l, Len(sub[1]))
                 \o Flatten([i \in 1..Len(sub[1]) |-> RecBytes(l, sub[1][i], S, P)]))
        \o (IF payload THEN PayloadBytes ELSE <<>>)

Cut(b, c) == SubSeq(b, 1, IF Len(b) > c THEN Len(b) - c ELSE 0)

SeqsUpTo(S, n) == UNION {[1..k -> S] : k \in 0..n}

TiffInputs ==
    {Cut(TiffBytes(l, names, sub, payload), c) :
        l \in BOOLEAN, names \in SeqsUpTo(Ifd0Pool, MaxEntries),
        sub \in {<<>>, <<(<<>>)>>} \cup {<< <<x>> >> : x \in SubPool},
        payload \in BOOLEAN, c \in 0..MaxCut}

\* JPEG: SOI, a JFIF APP0 segment of 16 bytes, then segments, then a cut
MinimalTiff == TiffBytes(TRUE, <<"orient6">>, <<>>, FALSE)

SegPool == {"app1", "app1_short", "app1_exif01", "app1_xmp", "sos", "dqt",
            "badmarker", "size1", "longbody"}

SegBytes(name) ==
    CASE name = "app1" ->
            <<255, 225>> \o U16B(FALSE, 2 + 6 + Len(MinimalTiff))
            \o <<69, 120, 105, 102, 0, 0>> \o MinimalTiff
      [] name = "app1_short" -> <<255, 225, 0, 6, 69, 120, 105, 102>>
      [] name = "app1_exif01" ->
            <<255, 225>> \o U16B(FALSE, 2 + 6 + Len(MinimalTiff))
            \o <<69, 120, 105, 102, 0, 1>> \o MinimalTiff
      [] name = "app1_xmp" -> <<255, 225, 0, 10, 104, 116, 116, 112, 58, 47, 47, 110>>
      [] name = "sos" -> <<255, 218, 0, 2>>
      [] name = "dqt" -> <<255, 219, 0, 4, 7, 7>>
      [] name = "badmarker" -> <<18, 52, 0, 2>>
      [] name = "size1" -> <<255, 219, 0, 1>>
      [] name = "longbody" -> <<255, 219, 0, 64, 1, 2>>

JpegHeader == <<255, 216, 255, 224, 0, 16, 74, 70, 73, 70, 0, 1, 1, 0, 0, 1, 0, 1, 0, 0>>

JpegInputs ==
    {Cut(JpegHeader \o Flatten([i \in 1..Len(segs) |-> SegBytes(segs[i])]), c) :
        segs \in SeqsUpTo(SegPool, MaxEntries), c \in 0..MaxCut}
    \cup
    \* JPEG files without a JFIF segment: the 0xFFE1 segment comes first
    {Cut(<<255, 216>> \o SegBytes(seg), c) :
        seg \in {"app1", "app1_exif01", "app1_xmp"}, c \in 0..MaxCut}

\* Buffers around the preamble: both byte orders with IFD0 at offset 10, the
\* two signatures with the bytes of 42 exchanged, a mixed signature; and
\* every prefix of them
OddHeads ==
    {<<73, 73, 42, 0, 10, 0, 0, 0, 0, 0, 0, 0, 0, 0, 0, 0>>,
     <<77, 77, 0, 42, 0, 0, 0, 10, 0, 0, 0, 0, 0, 0, 0, 0>>,
     <<73, 73, 0, 42, 0, 0, 0, 8, 0, 0, 0, 0, 0, 0>>,
     <<77, 77, 42, 0, 8, 0, 0, 0, 0, 0, 0, 0, 0, 0>>,
     <<73, 77, 42, 0, 8, 0, 0, 0, 0, 0, 0, 0, 0, 0>>}

OddInputs == UNION {{SubSeq(b, 1, k) : k \in 0..Len(b)} : b \in OddHeads}

\* Images with two different directories behind the pointers of IFD0: the
\* EXIF SubIFD holds ISOSpeedRatings = 100, the GPS SubIFD holds
\* ResolutionUnit = 2.  ptrs is the order of the records of IFD0.
PairTiff(l, ptrs) ==
    LET n == Len(ptrs)
        E == 8 + 2 + 12 * n + 4
        G == E + 2 + 12
        rec(name) ==
            CASE name = "exifptr" -> Rec(l, ExifOffset, 4, 1, U32B(l, E))
              [] name = "gpsptr" -> Rec(l, GPSOffset, 4, 1, U32B(l, G))
              [] OTHER -> RecBytes(l, name, E, G)
    IN  Preamble(l) \o U32B(l, 8) \o U16B(l, n)
        \o Flatten([i \in 1..n |-> rec(ptrs[i])])
        \o <<0, 0, 0, 0>>
        \o U16B(l, 1) \o Rec(l, 34855, 3, 1, U16B(l, 100) \o <<0, 0>>)
        \o U16B(l, 1) \o Rec(l, 296, 3, 1, U16B(l, 2) \o <<0, 0>>)

PairInputs ==
    {PairTiff(l, ptrs) :
        l \in BOOLEAN,
        ptrs \in {<<"exifptr", "gpsptr">>, <<"gpsptr", "exifptr">>,
                  <<"gpsptr", "orient6", "exifptr">>, <<"orient6", "exifptr">>,
                  <<"gpsptr", "unknown">>}}

Inputs == TiffInputs \cup JpegInputs \cup OddInputs \cup PairInputs

(***************************************************************************)
(* Inputs of the entry decoder and builder: an IfdEntry after copy_data    *)
(***************************************************************************)
MaxCount == 3

DataPool ==
    {<<>>, <<6>>, <<6, 0>>, <<0, 6, 0>>, <<6, 0, 0, 0>>, <<65, 0, 66, 0, 0, 0>>,
     <<72, 0, 0, 0, 1, 0, 0, 0>>,
     <<65, 0, 66>>, <<195, 169, 0>>, <<65, 195, 0, 0>>, <<226, 130, 172>>,
     <<1, 2, 3, 4, 5, 6, 7, 8, 9, 10, 11, 12, 13, 14, 15, 16>>}

EntryInputs ==
    {[tag |-> t, format |-> IfdFormat_new(n), count |-> c, data |-> d,
      ifd_data |-> <<0, 0, 0, 0>>, ext_data |-> <<>>, le |-> l] :
        t \in {270, 274, 34855, 4660}, n \in 0..12, c \in 0..MaxCount,
        d \in DataPool, l \in BOOLEAN}

NoEntry ==
    [tag |-> 0, format |-> "Unknown", count |-> 0, data |-> <<>>,
     ifd_data |-> <<>>, ext_data |-> <<>>, le |-> FALSE]

NoValue == TV("None", <<>>)

NoRow == Row("None", 0, "", "", "Unknown", -1, -1, "nop")

NoBuilt ==
    [ifd |-> NoEntry, tag |-> "None", value |-> NoValue, unit |-> "",
     tag_readable |-> "", value_readable |-> "", value_more_readable |-> "",
     rendered |-> FALSE, panicked |-> FALSE]

(***************************************************************************)
(* The parse of one buffer as a state machine.  pc is the position in      *)
(* parse_buffer / parse_tiff / parse_ifds; tiff is the slice handed to     *)
(* parse_tiff; exif_entries, ifd, idx are the locals of parse_ifds; walked *)
(* lists the offsets of the directories parse_exif_ifd has walked.         *)
(***************************************************************************)
Init ==
    /\ contents \in Inputs
    /\ pc \in {"parse_buffer", "parse_tiff"}
    /\ tiff = IF pc = "parse_tiff" THEN contents ELSE <<>>
    /\ le = FALSE
    /\ offset = 0
    /\ exif_entries = <<>>
    /\ ifd = <<>>
    /\ idx = 0
    /\ result = None
    /\ mime = ""
    /\ walked = <<>>
    /\ postprocessed = FALSE
    /\ fentry = NoEntry
    /\ built = NoBuilt
    /\ decoded = NoValue
    /\ descriptor = NoRow

Finish(r) ==
    /\ result' = r
    /\ pc' = "done"

\* lib.rs parse_buffer, up to the call of the JPEG scan or of parse_tiff
ParseBuffer ==
    /\ pc = "parse_buffer"
    /\ mime' = detect_type(contents)
    /\ IF mime' = ""
       THEN /\ Finish(Err("FileTypeUnknown", ""))
            /\ UNCHANGED <<tiff, offset>>
       ELSE IF mime' = "image/jpeg"
       THEN /\ pc' = "jpeg"
            /\ offset' = 2
            /\ UNCHANGED <<tiff, result>>
       ELSE /\ pc' = "parse_tiff"
            /\ tiff' = contents
            /\ UNCHANGED <<offset, result>>
    /\ UNCHANGED <<descriptor, contents, le, exif_entries, ifd, idx, walked, postprocessed,
                   fentry, built, decoded>>

\* A faulty variant of the scan that hands out the size of the segment with
\* the preamble in it
scan_at_oversize(c, o) ==
    IF o < Len(c)
    THEN LET r == jpeg_step(c, o) IN
         IF r.kind = "Ok" THEN Scan("Ok", r.offset, r.size + 6, "") ELSE r
    ELSE Scan("Err", 0, 0, "Scan past EOF and no EXIF found")

\* The outcome of the scan at the top of the loop
scan_at(c, o) ==
    IF o < Len(c) THEN jpeg_step(c, o)
    ELSE Scan("Err", 0, 0, "Scan past EOF and no EXIF found")

\* One turn of the loop of find_embedded_tiff_in_jpeg; when the scan ends,
\* parse_buffer fails on offset 0 and else slices contents[offset..offset+size]
JpegScan ==
    /\ pc = "jpeg"
    /\ LET r == scan_at(contents, offset) IN
       IF r.kind = "Next"
       THEN /\ offset' = r.offset
            /\ UNCHANGED <<pc, tiff, result>>
       ELSE IF r.offset = 0
       THEN /\ Finish(Err("JpegWithoutExif", r.extra))
            /\ UNCHANGED <<tiff, offset>>
       ELSE IF Len(contents) < r.offset + r.size
       THEN /\ Finish(Panic("parse_buffer slice"))
            /\ UNCHANGED <<tiff, offset>>
       ELSE /\ tiff' = Sl(contents, r.offset, r.offset + r.size)
            /\ offset' = r.offset
            /\ pc' = "parse_tiff"
            /\ UNCHANGED result
    /\ UNCHANGED <<descriptor, contents, le, exif_entries, ifd, idx, mime, walked,
                   postprocessed, fentry, built, decoded>>

\* A faulty variant of parse_tiff that reads the IFD0 offset in the byte
\* order the preamble does not select: the property of C11 must tell it
\* from parse_tiff
ParseTiff_swapped ==
    /\ pc = "parse_tiff"
    /\ IF Len(tiff) < 8
       THEN /\ Finish(Err("TiffTruncated", ""))
            /\ UNCHANGED <<le, offset>>
       ELSE IF Sl(tiff, 0, 4) \notin {<<73, 73, 42, 0>>, <<77, 77, 0, 42>>}
       THEN /\ Finish(Err("TiffBadPreamble", "Preamble is ?"))
            /\ UNCHANGED <<le, offset>>
       ELSE /\ le' = (Sl(tiff, 0, 4) = <<73, 73, 42, 0>>)
            /\ offset' = read_u32(~le', Sl(tiff, 4, 8))
            /\ pc' = "ifd0"
            /\ UNCHANGED result
    /\ UNCHANGED <<descriptor, contents, tiff, exif_entries, ifd, idx, mime, walked,
                   postprocessed, fentry, built, decoded>>

\* tiff.rs parse_tiff
ParseTiff ==
    /\ pc = "parse_tiff"
    /\ IF Len(tiff) < 8
       THEN /\ Finish(Err("TiffTruncated", ""))
            /\ UNCHANGED <<le, offset>>
       ELSE IF Sl(tiff, 0, 4) \notin {<<73, 73, 42, 0>>, <<77, 77, 0, 42>>}
       THEN /\ Finish(Err("TiffBadPreamble",
                          "Preamble is " \o Hex(tiff[1]) \o " " \o Hex(tiff[2])
                          \o " " \o Hex(tiff[3]) \o " " \o Hex(tiff[4])))
            /\ UNCHANGED <<le, offset>>
       ELSE /\ le' = (Sl(tiff, 0, 4) = <<73, 73, 42, 0>>)
            /\ offset' = read_u32(le', Sl(tiff, 4, 8))
            /\ pc' = "ifd0"
            /\ UNCHANGED result
    /\ UNCHANGED <<descriptor, contents, tiff, exif_entries, ifd, idx, mime, walked,
                   postprocessed, fentry, built, decoded>>

\* A faulty variant of the error path that hands back the entries collected
\* so far: the property of C6 must tell it from parse_ifds
AfterWalk_partial(r, o, next) ==
    /\ exif_entries' = r.entries
    /\ IF r.kind = "Ok"
       THEN /\ walked' = Append(walked, o)
            /\ pc' = next
            /\ UNCHANGED result
       ELSE /\ Finish(r)
            /\ UNCHANGED walked

\* What parse_ifds does with the outcome r of parse_exif_ifd at directory o:
\* an Err is returned at once
AfterWalk(r, o, next) ==
    /\ exif_entries' = r.entries
    /\ IF r.kind = "Ok"
       THEN /\ walked' = Append(walked, o)
            /\ pc' = next
            /\ UNCHANGED result
       ELSE /\ Finish([r EXCEPT !.entries = <<>>])
            /\ UNCHANGED walked

\* parse_ifds: exif_entries is filled from IFD0
ParseIfd0 ==
    /\ pc = "ifd0"
    /\ AfterWalk(parse_exif_ifd(le, tiff, offset, exif_entries), offset, "rescan")
    /\ UNCHANGED <<descriptor, contents, tiff, le, offset, ifd, idx, mime, postprocessed,
                   fentry, built, decoded>>

\* parse_ifds: IFD0 is parsed again, now with its 4-byte next-IFD field
Rescan ==
    /\ pc = "rescan"
    /\ LET count == read_u16(le, Sl(tiff, offset, offset + 2))
           ifd_length == count * 12 + 4
       IN IF Len(tiff) < offset + 2 + ifd_length
          THEN /\ Finish(Panic("parse_ifds slice"))
               /\ UNCHANGED <<ifd, idx>>
          ELSE /\ ifd' = parse_ifd(le, count, Sl(tiff, offset + 2, offset + 2 + ifd_length))
               /\ idx' = 1
               /\ pc' = "subifd"
               /\ UNCHANGED result
    /\ UNCHANGED <<descriptor, contents, tiff, le, offset, exif_entries, mime, walked,
                   postprocessed, fentry, built, decoded>>

IsPointer(entry) == entry.tag = ExifOffset \/ entry.tag = GPSOffset

\* parse_ifds: one turn of the loop over the records of IFD0
FollowPointer ==
    /\ pc = "subifd"
    /\ idx <= Len(ifd)
    /\ LET entry == ifd[idx]
           exif_offset == data_as_offset(entry)
       IN IF ~IsPointer(entry)
          THEN UNCHANGED <<exif_entries, walked, result, pc>>
          ELSE IF Len(tiff) < exif_offset
          THEN /\ Finish(Err("ExifIfdTruncated", "Exif SubIFD goes past EOF"))
               /\ UNCHANGED <<exif_entries, walked>>
          ELSE AfterWalk(parse_exif_ifd(le, tiff, exif_offset, exif_entries),
                         exif_offset, "subifd")
    /\ idx' = idx + 1
    /\ UNCHANGED <<descriptor, contents, tiff, le, offset, ifd, mime, postprocessed,
                   fentry, built, decoded>>

\* parse_ifds: the postprocessing pass over a copy of the list, and the
\* return; parse_buffer adds the MIME type
Postprocess ==
    /\ pc = "subifd"
    /\ idx > Len(ifd)
    /\ LET post == [i \in 1..Len(exif_entries) |->
                        exif_postprocessing(exif_entries[i], exif_entries)]
       IN IF \E i \in 1..Len(post) : post[i].panicked
          THEN /\ Finish(Panic("exif_postprocessing"))
               /\ UNCHANGED exif_entries
          ELSE /\ exif_entries' = post
               /\ Finish([Ok(post) EXCEPT !.mime = mime])
    /\ postprocessed' = TRUE
    /\ UNCHANGED <<descriptor, contents, tiff, le, offset, ifd, idx, mime, walked,
                   fentry, built, decoded>>

Next ==
    \/ ParseBuffer
    \/ JpegScan
    \/ ParseTiff
    \/ ParseIfd0
    \/ Rescan
    \/ FollowPointer
    \/ Postprocess

Spec == Init /\ [][Next]_vars

(***************************************************************************)
(* The entry decoders and builders on their own: one IfdEntry, drawn from  *)
(* EntryInputs, is decoded or built by one of the four functions.          *)
(***************************************************************************)
InitEntry ==
    /\ fentry \in EntryInputs
    /\ pc = "entry"
    /\ contents = <<>>
    /\ tiff = <<>>
    /\ le = FALSE
    /\ offset = 0
    /\ exif_entries = <<>>
    /\ ifd = <<>>
    /\ idx = 0
    /\ result = None
    /\ mime = ""
    /\ walked = <<>>
    /\ postprocessed = FALSE
    /\ built = NoBuilt
    /\ decoded = NoValue
    /\ descriptor = NoRow

EntryFrame ==
    UNCHANGED <<descriptor, contents, tiff, le, offset, exif_entries, ifd, idx, result,
                mime, walked, postprocessed, fentry>>

\* types_impl.rs TagValue::new
NewTagValue ==
    /\ pc = "entry"
    /\ decoded' = TagValue_new(fentry)
    /\ pc' = "TagValue::new"
    /\ UNCHANGED built
    /\ EntryFrame

\* ifdformat.rs tag_value_new
OldTagValue ==
    /\ pc = "entry"
    /\ decoded' = tag_value_new(fentry)[1]
    /\ pc' = "tag_value_new"
    /\ UNCHANGED built
    /\ EntryFrame

\* lib.rs tag_value
LibTagValue ==
    /\ pc = "entry"
    /\ decoded' = tag_value(fentry)
    /\ pc' = "tag_value"
    /\ UNCHANGED built
    /\ EntryFrame

\* types_impl.rs IfdEntry::into_exif_entry
IntoExifEntry ==
    /\ pc = "entry"
    /\ built' = into_exif_entry(fentry)
    /\ pc' = "into_exif_entry"
    /\ UNCHANGED decoded
    /\ EntryFrame

\* tiff.rs parse_exif_entry
ParseExifEntry ==
    /\ pc = "entry"
    /\ built' = parse_exif_entry(fentry)
    /\ pc' = "parse_exif_entry"
    /\ UNCHANGED decoded
    /\ EntryFrame

NextEntry ==
    \/ NewTagValue
    \/ OldTagValue
    \/ LibTagValue
    \/ IntoExifEntry
    \/ ParseExifEntry

SpecEntry == InitEntry /\ [][NextEntry]_vars

(***************************************************************************)
(* The registry lookup on its own, for every 16-bit tag code               *)
(***************************************************************************)
MaxTag == 65535

\* types.rs, enum ExifTag: the code of every variant but UnknownToMe
ExifTagCodes ==
    {270, 271, 272, 274, 282, 283, 296, 305, 306, 316, 318, 319, 529, 532,
     33432, 34665, 34853, 33434, 33437, 34850, 34852, 34855, 34856, 36864,
     36867, 36868, 37377, 37378, 37379, 37380, 37381, 37382, 37383, 37384,
     37385, 37386, 37396, 37500, 37510, 40960, 40961, 40964, 41483, 41486,
     41487, 41488, 41492, 41493, 41495, 41728, 41729, 41730, 41985, 41986,
     41987, 41988, 41989, 41990, 41991, 41992, 41993, 41994, 41995, 41996,
     42016, 42034, 42035, 42036, 0, 1, 2, 3, 4, 5, 6, 7, 8, 9, 10, 11, 12,
     13, 14, 15, 16, 17, 18, 19, 20, 21, 22, 23, 24, 25, 26, 27, 28, 29,
     30}

InitTag ==
    /\ fentry \in {[NoEntry EXCEPT !.tag = t] : t \in 0..MaxTag}
    /\ pc = "tag"
    /\ contents = <<>>
    /\ tiff = <<>>
    /\ le = FALSE
    /\ offset = 0
    /\ exif_entries = <<>>
    /\ ifd = <<>>
    /\ idx = 0
    /\ result = None
    /\ mime = ""
    /\ walked = <<>>
    /\ postprocessed = FALSE
    /\ built = NoBuilt
    /\ decoded = NoValue
    /\ descriptor = NoRow

\* exif.rs tag_to_exif
Lookup ==
    /\ pc = "tag"
    /\ descriptor' = tag_to_exif(fentry.tag)
    /\ pc' = "tag_to_exif"
    /\ UNCHANGED <<contents, tiff, le, offset, exif_entries, ifd, idx, result,
                   mime, walked, postprocessed, fentry, built, decoded>>

NextTag == Lookup

SpecTag == InitTag /\ [][NextTag]_vars

(***************************************************************************)
(* The postprocessing pass on its own: parse_ifds has collected a list of  *)
(* entries and no pointer is left to follow.  The entries are made the way *)
(* create_entry of the tests of exifpost.rs makes them: a tag, a value and *)
(* the readable string.                                                    *)
(***************************************************************************)
MaxList == 3

create_entry(tag, value, value_more_readable) ==
    [ifd |-> NoEntry, tag |-> tag, value |-> value, unit |-> "",
     tag_readable |-> "", value_readable |-> "",
     value_more_readable |-> value_more_readable,
     rendered |-> TRUE, panicked |-> FALSE]

NoText == TV("Ascii", <<>>)

PostPool ==
    {create_entry("XResolution", NoText, "72/1"),
     create_entry("YResolution", NoText, "96/1"),
     create_entry("ResolutionUnit", TV("U16", <<2>>), "in"),
     create_entry("ResolutionUnit", TV("U16", <<3>>), "cm"),
     create_entry("FocalPlaneXResolution", NoText, "fx"),
     create_entry("FocalPlaneYResolution", NoText, "fy"),
     create_entry("FocalPlaneResolutionUnit", NoText, "mm"),
     create_entry("GPSLatitude", NoText, "lat"),
     create_entry("GPSLatitudeRef", NoText, "N"),
     create_entry("GPSLongitude", NoText, "lon"),
     create_entry("GPSLongitudeRef", NoText, "W"),
     create_entry("GPSAltitude", NoText, "100 m"),
     create_entry("GPSAltitudeRef", TV("U8", <<0, 1, 0, 0>>), "Above sea level"),
     create_entry("GPSAltitudeRef", TV("U8", <<1, 0, 0, 0>>), "Below sea level"),
     create_entry("GPSDestLatitude", NoText, "dlat"),
     create_entry("GPSDestLatitudeRef", NoText, "S"),
     create_entry("GPSDestLongitude", NoText, "dlon"),
     create_entry("GPSDestLongitudeRef", NoText, "E"),
     create_entry("GPSDestDistance", NoText, "5"),
     create_entry("GPSDestDistanceRef", NoText, "km"),
     create_entry("GPSSpeed", NoText, "60"),
     create_entry("GPSSpeedRef", NoText, "km/h"),
     create_entry("Orientation", TV("U16", <<1>>), "Straight"),
     create_entry("UnknownToMe", TVle("Unknown", <<1, 2, 3, 4>>, TRUE), "<unknown blob>")}

InitPost ==
    /\ exif_entries \in SeqsUpTo(PostPool, MaxList)
    /\ pc = "subifd"
    /\ ifd = <<>>
    /\ idx = 1
    /\ contents = <<>>
    /\ tiff = <<>>
    /\ le = FALSE
    /\ offset = 0
    /\ result = None
    /\ mime = ""
    /\ walked = <<>>
    /\ postprocessed = FALSE
    /\ fentry = NoEntry
    /\ built = NoBuilt
    /\ decoded = NoValue
    /\ descriptor = NoRow

NextPost == Postprocess

SpecPost == InitPost /\ [][NextPost]_vars

(***************************************************************************)
(* nikon.rs: the MakerNote blob.  contents is raw, tiff is raw[10..], the   *)
(* fake TIFF behind the vendor header; exif_entries is the caller's list.  *)
(* nikon_makernote returns nothing: its return is recorded as Ok with the  *)
(* list as it stands.                                                      *)
(***************************************************************************)
NikonHeader == <<78, 105, 107, 111, 110, 0, 2, 16, 0, 0>>

NikonPool == {"orient6", "iso3", "descr", "unknown", "nikonver"}

NikonInputs ==
    {Cut(NikonHeader \o TiffBytes(l, names, <<>>, payload), c) :
        l \in BOOLEAN, names \in SeqsUpTo(NikonPool, MaxEntries),
        payload \in BOOLEAN, c \in 0..MaxCut}
    \cup {NikonHeader \o b : b \in OddInputs}
    \cup {SubSeq(NikonHeader, 1, k) : k \in 0..9}

InitNikon ==
    /\ contents \in NikonInputs
    /\ exif_entries \in
          {<<>>, <<create_entry("Orientation", TV("U16", <<1>>), "Straight")>>}
    /\ pc = "nikon_makernote"
    /\ tiff = <<>>
    /\ le = FALSE
    /\ offset = 0
    /\ ifd = <<>>
    /\ idx = 0
    /\ result = None
    /\ mime = ""
    /\ walked = <<>>
    /\ postprocessed = FALSE
    /\ fentry = NoEntry
    /\ built = NoBuilt
    /\ decoded = NoValue
    /\ descriptor = NoRow

NikonFrame ==
    UNCHANGED <<descriptor, contents, ifd, idx, mime, walked, postprocessed,
                fentry, built, decoded>>

\* nikon_makernote: the slice raw[10..] panics on a blob of fewer than 10
\* bytes
NikonMakernote ==
    /\ pc = "nikon_makernote"
    /\ IF Len(contents) < 10
       THEN /\ Finish(Panic("raw[10..]"))
            /\ UNCHANGED tiff
       ELSE /\ tiff' = Sl(contents, 10, Len(contents))
            /\ pc' = "parse_nikon_tiff"
            /\ UNCHANGED result
    /\ UNCHANGED <<le, offset, exif_entries>>
    /\ NikonFrame

\* parse_nikon_tiff: false (and nothing done) on a short buffer or a bad
\* preamble, else the byte order and the offset of IFD0
ParseNikonTiff ==
    /\ pc = "parse_nikon_tiff"
    /\ IF Len(tiff) < 8
       THEN /\ Finish(Ok(exif_entries))
            /\ UNCHANGED <<le, offset>>
       ELSE IF Sl(tiff, 0, 4) = <<73, 73, 42, 0>>
       THEN /\ le' = TRUE
            /\ offset' = read_u32(TRUE, Sl(tiff, 4, 8))
            /\ pc' = "parse_nikon_ifd"
            /\ UNCHANGED result
       ELSE IF Sl(tiff, 0, 4) = <<77, 77, 0, 42>>
       THEN /\ le' = FALSE
            /\ offset' = read_u32(FALSE, Sl(tiff, 4, 8))
            /\ pc' = "parse_nikon_ifd"
            /\ UNCHANGED result
       ELSE /\ Finish(Ok(exif_entries))
            /\ UNCHANGED <<le, offset>>
    /\ UNCHANGED <<tiff, exif_entries>>
    /\ NikonFrame

\* parse_nikon_ifd: returns early when the count, or the listing with its
\* next-IFD field, is not in the buffer.  The first loop only looks for the
\* version tag in its own copy of the directory; parse_exif_ifd then fills
\* exif_entries and its result is dropped; the last loop only logs.
ParseNikonIfd ==
    /\ pc = "parse_nikon_ifd"
    /\ IF Len(tiff) < offset + 2
       THEN Finish(Ok(exif_entries)) /\ UNCHANGED exif_entries
       ELSE LET count == read_u16(le, Sl(tiff, offset, offset + 2))
                ifd_length == count * 12 + 4
            IN IF Len(tiff) < offset + 2 + ifd_length
               THEN Finish(Ok(exif_entries)) /\ UNCHANGED exif_entries
               ELSE \E r \in {parse_exif_ifd(le, tiff, offset, exif_entries)} :
                    /\ exif_entries' = r.entries
                    /\ IF r.kind = "Panic" THEN Finish(Panic(r.extra))
                       ELSE Finish(Ok(r.entries))
    /\ UNCHANGED <<tiff, le, offset>>
    /\ NikonFrame

NextNikon ==
    \/ NikonMakernote
    \/ ParseNikonTiff
    \/ ParseNikonIfd

SpecNikon == InitNikon /\ [][NextNikon]_vars

(***************************************************************************)
(* A renderer applied to a decoded value: flash to every 16-bit number,    *)
(* exposure_time to rationals n/d, and both to values of another shape.    *)
(***************************************************************************)
MaxU16 == 65535
MaxNum == 4
MaxDen == 12

ExposurePool ==
    {<<n, d>> : n \in 0..MaxNum, d \in 0..MaxDen}
    \cup {<<1, 125>>, <<2, 250>>, <<3, 100>>, <<125, 1>>}

FlashInputs == {TV("U16", <<n>>) : n \in 0..MaxU16}

ExposureInputs == {TV("URational", <<r>>) : r \in ExposurePool}

OddShapes == {TV("U16", <<>>), TV("URational", <<>>), TV("Ascii", <<65>>)}

InitRender ==
    /\ \/ decoded \in FlashInputs
       \/ decoded \in ExposureInputs
       \/ decoded \in OddShapes
    /\ pc = "render"
    /\ fentry = NoEntry
    /\ contents = <<>>
    /\ tiff = <<>>
    /\ le = FALSE
    /\ offset = 0
    /\ exif_entries = <<>>
    /\ ifd = <<>>
    /\ idx = 0
    /\ result = None
    /\ mime = ""
    /\ walked = <<>>
    /\ postprocessed = FALSE
    /\ built = NoBuilt
    /\ descriptor = NoRow

\* The renderer's string is kept in value_more_readable, a panic in panicked
Render(r, name) ==
    /\ built' = [NoBuilt EXCEPT !.value = decoded, !.value_more_readable = r.s,
                                !.rendered = TRUE, !.panicked = r.panic]
    /\ pc' = name
    /\ UNCHANGED decoded
    /\ EntryFrame

Flash ==
    /\ pc = "render"
    /\ \E r \in {flash(decoded)} : Render(r, "flash")

ExposureTime ==
    /\ pc = "render"
    /\ \E r \in {exposure_time(decoded)} : Render(r, "exposure_time")

NextRender ==
    \/ Flash
    \/ ExposureTime

SpecRender == InitRender /\ [][NextRender]_vars

(***************************************************************************)
(* copy_data on its own: an entry as parse_ifd leaves it (data empty, or   *)
(* data holding the inline bytes in the revision without a use of          *)
(* ifd_data) and the buffer of the image.  built.ifd is the entry after    *)
(* the call, result the boolean returned.                                  *)
(***************************************************************************)
Bool(b) == [None EXCEPT !.kind = "Bool", !.extra = IF b THEN "true" ELSE "false"]

InlinePool ==
    {<<0, 0, 0, 0>>, <<2, 0, 0, 0>>, <<0, 0, 0, 2>>, <<20, 0, 0, 0>>,
     <<0, 0, 0, 20>>, <<1, 2, 3, 4>>}

BufferPool ==
    {<<>>, <<10, 11, 12, 13, 14, 15, 16, 17>>,
     <<20, 21, 22, 23, 24, 25, 26, 27, 28, 29, 30, 31, 32, 33, 34, 35, 36, 37,
       38, 39, 40, 41, 42, 43, 44, 45>>}

CopyInputs ==
    {[tag |-> t, format |-> IfdFormat_new(n), count |-> c, data |-> d,
      ifd_data |-> i, ext_data |-> <<>>, le |-> l] :
        t \in {270, 34855}, n \in 0..12, c \in 0..MaxCount,
        i \in InlinePool, d \in {<<>>}, l \in BOOLEAN}
    \cup
    {[tag |-> t, format |-> IfdFormat_new(n), count |-> c, data |-> i,
      ifd_data |-> i, ext_data |-> <<>>, le |-> l] :
        t \in {270, 34855}, n \in 0..12, c \in 0..MaxCount,
        i \in InlinePool, l \in BOOLEAN}

InitCopy ==
    /\ fentry \in CopyInputs
    /\ contents \in BufferPool
    /\ pc = "entry"
    /\ tiff = <<>>
    /\ le = FALSE
    /\ offset = 0
    /\ exif_entries = <<>>
    /\ ifd = <<>>
    /\ idx = 0
    /\ result = None
    /\ mime = ""
    /\ walked = <<>>
    /\ postprocessed = FALSE
    /\ built = NoBuilt
    /\ decoded = NoValue
    /\ descriptor = NoRow

CopyFrame ==
    UNCHANGED <<descriptor, contents, tiff, le, offset, exif_entries, ifd, idx,
                mime, walked, postprocessed, fentry, decoded>>

\* lib.rs IfdEntry::copy_data
CopyData ==
    /\ pc = "entry"
    /\ built' = [NoBuilt EXCEPT !.ifd = copy_data(fentry, contents)]
    /\ result' = Bool(copy_data_ok(fentry, contents))
    /\ pc' = "copy_data"
    /\ CopyFrame

\* types_impl.rs IfdEntry::copy_data
ImplCopyData ==
    /\ pc = "entry"
    /\ \E r \in {IfdEntry_copy_data(fentry, contents)} :
          /\ built' = [NoBuilt EXCEPT !.ifd = r.entry, !.panicked = r.panic]
          /\ result' = IF r.panic THEN Panic("data[0..4]") ELSE Bool(r.ok)
    /\ pc' = "IfdEntry::copy_data"
    /\ CopyFrame

NextCopy ==
    \/ CopyData
    \/ ImplCopyData

SpecCopy == InitCopy /\ [][NextCopy]_vars

(***************************************************************************)
(* find_embedded_tiff_in_jpeg on its own, called with any buffer: SOI and  *)
(* up to MaxSegs segments, cut short; idx counts the iterations of the     *)
(* loop that were begun, result holds what the function returns.           *)
(***************************************************************************)
MaxSegs == 3

ScanSegBytes(name) ==
    IF name = "empty" THEN <<255, 219, 0, 2>> ELSE SegBytes(name)

ScanInputs ==
    {Cut(<<255, 216>> \o Flatten([i \in 1..Len(segs) |-> ScanSegBytes(segs[i])]), c) :
        segs \in SeqsUpTo(SegPool \cup {"empty"}, MaxSegs), c \in 0..MaxCut}

InitScan ==
    /\ contents \in ScanInputs
    /\ pc = "scan"
    /\ offset = 2
    /\ idx = 0
    /\ result = None
    /\ tiff = <<>>
    /\ le = FALSE
    /\ exif_entries = <<>>
    /\ ifd = <<>>
    /\ mime = ""
    /\ walked = <<>>
    /\ postprocessed = FALSE
    /\ fentry = NoEntry
    /\ built = NoBuilt
    /\ decoded = NoValue
    /\ descriptor = NoRow

ScanFrame ==
    UNCHANGED <<descriptor, contents, tiff, le, exif_entries, ifd, mime, walked,
                postprocessed, fentry, built, decoded>>

\* The loop test and, when it holds, one iteration
ScanStep ==
    /\ pc = "scan"
    /\ idx' = IF offset < Len(contents) THEN idx + 1 ELSE idx
    /\ LET r == scan_at(contents, offset) IN
       IF r.kind = "Next"
       THEN /\ offset' = r.offset
            /\ UNCHANGED <<pc, result>>
       ELSE /\ result' = r
            /\ pc' = "scanned"
            /\ UNCHANGED offset
    /\ ScanFrame

NextScan == ScanStep

\* The loop is sequential code: an iteration that can run does run
SpecScan == InitScan /\ [][NextScan]_vars /\ WF_vars(NextScan)

(***************************************************************************)
(* The scalar readers on their own: four bytes and a byte order; the 16-bit *)
(* readers are given the first two bytes.                                  *)
(***************************************************************************)
ByteVals == {0, 1, 42, 127, 128, 255}

InitRead ==
    /\ contents \in [1..4 -> ByteVals]
    /\ le \in BOOLEAN
    /\ pc = "read"
    /\ tiff = <<>>
    /\ offset = 0
    /\ exif_entries = <<>>
    /\ ifd = <<>>
    /\ idx = 0
    /\ result = None
    /\ mime = ""
    /\ walked = <<>>
    /\ postprocessed = FALSE
    /\ fentry = NoEntry
    /\ built = NoBuilt
    /\ decoded = NoValue
    /\ descriptor = NoRow

ReadFrame ==
    UNCHANGED <<descriptor, contents, tiff, le, offset, exif_entries, ifd, idx,
                result, mime, walked, postprocessed, fentry, built>>

ReadU16 ==
    /\ pc = "read"
    /\ decoded' = TV("U16", <<read_u16(le, Sl(contents, 0, 2))>>)
    /\ pc' = "read_u16"
    /\ ReadFrame

ReadI16 ==
    /\ pc = "read"
    /\ decoded' = TV("I16", <<read_i16(le, Sl(contents, 0, 2))>>)
    /\ pc' = "read_i16"
    /\ ReadFrame

ReadU32 ==
    /\ pc = "read"
    /\ decoded' = TV("U32", read_u32_halves(le, contents))
    /\ pc' = "read_u32"
    /\ ReadFrame

ReadI32 ==
    /\ pc = "read"
    /\ decoded' = TV("I32", <<read_i32(le, contents)>>)
    /\ pc' = "read_i32"
    /\ ReadFrame

NextRead ==
    \/ ReadU16
    \/ ReadI16
    \/ ReadU32
    \/ ReadI32

SpecRead == InitRead /\ [][NextRead]_vars

(***************************************************************************)
(* Properties                                                              *)
(***************************************************************************)
Known(t) == tag_to_exif(t).tag # "UnknownToMe"

\* C1: the walk never takes a slice past the end of the buffer: when
\* parse_ifds parses IFD0 again, the count*12+4 bytes it slices at offset+2
\* lie within the buffer.
C1_SliceWithinBuffer ==
    pc = "rescan" =>
        Len(tiff) >= offset + 2 + read_u16(le, Sl(tiff, offset, offset + 2)) * 12 + 4

\* C2: no ExifEntry is produced for an entry whose copy_data returns false:
\* every entry in the list has its payload inside the buffer.
C2_FailedCopyIsSkipped ==
    \A i \in 1..Len(exif_entries) : copy_data_ok(exif_entries[i].ifd, tiff)

\* C3: whichever decoder ran (TagValue::new, tag_value_new, tag_value), a
\* fixed-width entry with count >= 1 and data shorter than count * size
\* decodes to Invalid(data, le, format, count), without panic.
C3_ShortDataIsInvalid ==
    (/\ pc \in {"TagValue::new", "tag_value_new", "tag_value"}
     /\ fentry.format \in FixedWidth
     /\ fentry.count >= 1
     /\ Len(fentry.data) < fentry.count * IfdFormat_size(fentry.format))
    => decoded = Invalid(fentry)

\* C4: whichever builder ran (parse_exif_entry, into_exif_entry), an entry
\* of a known tag whose count lies outside the registry's bounds is built
\* without panic and without the tag's renderer having been applied.
C4_OutOfBoundsNotRendered ==
    (/\ pc \in {"parse_exif_entry", "into_exif_entry"}
     /\ Known(fentry.tag)
     /\ CountOutOfBounds(tag_to_exif(fentry.tag), fentry))
    => ~built.panicked /\ ~built.rendered

\* C5: whichever builder ran, an entry of a known tag whose format is not
\* the registry's is built without panic, the renderer is not invoked, and
\* the entry holds the decoded value.
C5_MismatchNotRendered ==
    (/\ pc \in {"parse_exif_entry", "into_exif_entry"}
     /\ Known(fentry.tag)
     /\ tag_to_exif(fentry.tag).format # fentry.format)
    => /\ ~built.rendered
       /\ ~built.panicked
       /\ built.value = TagValue_new(fentry)

C7_MinimalTiff ==
    (contents = MinimalTiff /\ pc = "done") =>
        /\ result.kind = "Ok"
        /\ Len(result.entries) = 1
        /\ result.entries[1].tag = "Orientation"
        /\ result.entries[1].value_more_readable = "Rotated to left"
        /\ (mime # "" => result.mime = "image/tiff")

C7_Witness ==
    /\ contents = MinimalTiff
    /\ pc = "done"
    /\ result.kind = "Ok"
    /\ result.mime = "image/tiff"
    /\ Len(result.entries) = 1
    /\ result.entries[1].value_more_readable = "Rotated to left"

\* The conditions of C8 at scan position o: end of buffer, a header or a
\* body past the end, a marker below 0xFF00, a size below 2, or 0xFFDA
ScanMustFail(c, o) ==
    \/ o >= Len(c)
    \/ Len(c) < o + 4
    \/ c[o + 1] * 256 + c[o + 2] < 65280
    \/ c[o + 3] * 256 + c[o + 4] < 2
    \/ Len(c) < o + 2 + c[o + 3] * 256 + c[o + 4]
    \/ c[o + 1] * 256 + c[o + 2] = 65498

\* C8: when the scan of a JPEG buffer meets one of these conditions, the
\* parse ends there with the JpegWithoutExif error and no data.
C8_ScanFailsWithoutExif ==
    [][(pc = "jpeg" /\ ScanMustFail(contents, offset)) =>
        (/\ pc' = "done"
         /\ result'.kind = "Err"
         /\ result'.err = "JpegWithoutExif"
         /\ result'.entries = <<>>)]_vars

\* The scan met 0xFFDA after at least one segment was stepped over
C8_Witness ==
    /\ pc = "done"
    /\ mime = "image/jpeg"
    /\ result.kind = "Err"
    /\ result.err = "JpegWithoutExif"
    /\ result.extra = "Last mark found and no EXIF"
    /\ offset > 20

\* The outcome C9 states for parse_exif_ifd at directory offset o, called
\* with the list acc: the truncation error, or Ok with the n records of the
\* directory appended in their order
DirOutcome(o, acc) ==
    IF Len(tiff) < o + 2 THEN result'.err = "ExifIfdTruncated"
    ELSE LET n == read_u16(le, Sl(tiff, o, o + 2)) IN
         IF Len(tiff) < o + 2 + 12 * n THEN result'.err = "ExifIfdTruncated"
         ELSE /\ result'.kind = "None"
              /\ Len(exif_entries') = Len(acc) + n
              /\ \A i \in 1..n :
                    exif_entries'[Len(acc) + i].ifd.tag =
                        read_u16(le, Sl(tiff, o + 2 + 12 * (i - 1), o + 4 + 12 * (i - 1)))

\* C9: parse_exif_ifd returns the truncation error when the buffer is short
\* of o+2 or of o+2+12*n bytes, and Ok after exactly the n records, in
\* order, in every other case; for IFD0 and for a directory a pointer leads to.
C9_DirectoryWalk ==
    [][/\ pc = "ifd0" => DirOutcome(offset, exif_entries)
       /\ (/\ pc = "subifd"
           /\ idx <= Len(ifd)
           /\ IsPointer(ifd[idx])
           /\ data_as_offset(ifd[idx]) <= Len(tiff))
          => DirOutcome(data_as_offset(ifd[idx]), exif_entries)]_vars

\* The records of IFD0, once parse_exif_ifd has walked it
Ifd0Records ==
    LET n == read_u16(le, Sl(tiff, offset, offset + 2))
    IN  parse_ifd(le, n, Sl(tiff, offset + 2, offset + 2 + 12 * n))

\* C10: a parse whose IFD0 holds an ExifOffset or GPSOffset pointer beyond
\* the end of the buffer ends in the truncation error.
C10_PointerPastEndIsTruncation ==
    (/\ pc = "done"
     /\ Len(walked) >= 1
     /\ \E i \in 1..Len(Ifd0Records) :
            /\ IsPointer(Ifd0Records[i])
            /\ data_as_offset(Ifd0Records[i]) > Len(tiff))
    => result.kind = "Err" /\ result.err = "ExifIfdTruncated"

\* C11: parse_tiff returns TiffTruncated exactly for a buffer of fewer than
\* 8 bytes, TiffBadPreamble with the four bytes in its message exactly for a
\* longer buffer that starts with neither signature, and otherwise goes on
\* to IFD0 at the offset of bytes 4..8, little-endian after II*\0 and
\* big-endian after MM\0*.
C11_ParseTiffOutcome ==
    [][pc = "parse_tiff" =>
        IF Len(tiff) < 8
        THEN result' = Err("TiffTruncated", "") /\ pc' = "done"
        ELSE IF Sl(tiff, 0, 4) = <<73, 73, 42, 0>>
        THEN /\ pc' = "ifd0" /\ result'.kind = "None" /\ le'
             /\ offset' = tiff[5] + 256 * tiff[6] + 65536 * tiff[7] + 16777216 * tiff[8]
        ELSE IF Sl(tiff, 0, 4) = <<77, 77, 0, 42>>
        THEN /\ pc' = "ifd0" /\ result'.kind = "None" /\ ~le'
             /\ offset' = tiff[8] + 256 * tiff[7] + 65536 * tiff[6] + 16777216 * tiff[5]
        ELSE /\ pc' = "done"
             /\ result'.kind = "Err"
             /\ result'.err = "TiffBadPreamble"
             /\ result'.extra = "Preamble is " \o Hex(tiff[1]) \o " " \o Hex(tiff[2])
                                \o " " \o Hex(tiff[3]) \o " " \o Hex(tiff[4])]_vars

\* A buffer of 8 bytes or more with II followed by the bytes of 42 in the
\* other order is refused
C11_Witness ==
    /\ pc = "done"
    /\ Len(tiff) >= 8
    /\ Sl(tiff, 0, 4) = <<73, 73, 0, 42>>
    /\ result.err = "TiffBadPreamble"
    /\ result.extra = "Preamble is 49 49 0 2a"

\* The tags of the records of the directory at offset o, in physical order
DirTags(o) ==
    LET n == read_u16(le, Sl(tiff, o, o + 2))
    IN  [i \in 1..n |-> read_u16(le, Sl(tiff, o + 2 + 12 * (i - 1), o + 4 + 12 * (i - 1)))]

\* The tags of the directory the first record of IFD0 with tag t points to,
\* or none when IFD0 has no such record
PointedTags(t) ==
    IF \E i \in 1..Len(ifd) : ifd[i].tag = t
    THEN LET i == CHOOSE j \in 1..Len(ifd) :
                    /\ ifd[j].tag = t
                    /\ \A k \in 1..(j - 1) : ifd[k].tag # t
         IN  DirTags(data_as_offset(ifd[i]))
    ELSE <<>>

\* C12: the list of a successful parse holds the entries of IFD0, then the
\* entries of the EXIF SubIFD, then the entries of the GPS SubIFD, each in
\* physical order, wherever the two pointers stand in IFD0.
C12_Ifd0ThenExifThenGps ==
    (pc = "done" /\ result.kind = "Ok") =>
        [i \in 1..Len(result.entries) |-> result.entries[i].ifd.tag]
            = DirTags(offset) \o PointedTags(ExifOffset) \o PointedTags(GPSOffset)

\* C13: the EXIF SubIFD and the GPS SubIFD are each walked at most once and
\* no pointer inside a SubIFD is followed: besides IFD0, at most one
\* directory is walked per pointer tag present in IFD0, three at most.
C13_EachSubIfdOnce ==
    /\ Len(walked) <= 3
    /\ Len(walked) <= 1 + Cardinality({ifd[i].tag : i \in {j \in 1..Len(ifd) : IsPointer(ifd[j])}})

\* C14: the lookup returns a descriptor for every 16-bit code; a code that
\* is no ExifTag variant gets the catch-all descriptor (UnknownToMe, format
\* Unknown, no count bounds, the passthrough renderer nop), a code that is
\* one gets the row of that code.
C14_LookupIsTotal ==
    pc = "tag_to_exif" =>
        /\ descriptor # NoRow
        /\ fentry.tag \notin ExifTagCodes =>
                descriptor = Row("UnknownToMe", 65535,
                                 "Unknown to this library, or manufacturer-specific",
                                 "Unknown unit", "Unknown", -1, -1, "nop")
        /\ fentry.tag \in ExifTagCodes =>
                descriptor.code = fentry.tag /\ descriptor.tag # "UnknownToMe"

\* The last code of the space, which is no known tag, was looked up
C14_Witness ==
    /\ pc = "tag_to_exif"
    /\ fentry.tag = 65535
    /\ descriptor.tag = "UnknownToMe"
    /\ descriptor.format = "Unknown"


(***************************************************************************)
(* exif_postprocessing                                                     *)
(***************************************************************************)
\* The targets of the pass, each with its sibling tag and joiner.
SiblingPairs ==
    {<<"XResolution", "ResolutionUnit", " pixels per ">>,
     <<"YResolution", "ResolutionUnit", " pixels per ">>,
     <<"FocalPlaneXResolution", "FocalPlaneResolutionUnit", " pixels per ">>,
     <<"FocalPlaneYResolution", "FocalPlaneResolutionUnit", " pixels per ">>,
     <<"GPSLatitude", "GPSLatitudeRef", " ">>,
     <<"GPSLongitude", "GPSLongitudeRef", " ">>,
     <<"GPSDestLatitude", "GPSDestLatitudeRef", " ">>,
     <<"GPSDestLongitude", "GPSDestLongitudeRef", " ">>,
     <<"GPSSpeed", "GPSSpeedRef", " ">>,
     <<"GPSDestDistance", "GPSDestDistanceRef", " ">>}

\* The pass is about to run on the collected list and it does not panic.
PostStep == pc = "subifd" /\ idx > Len(ifd) /\ result'.kind = "Ok"

\* Position k is the first entry of the list before the pass with this tag.
FirstWithTag(k, tag) ==
    /\ k \in 1..Len(exif_entries)
    /\ exif_entries[k].tag = tag
    /\ \A j \in 1..(k - 1) : exif_entries[j].tag # tag

\* C15: a target entry whose sibling tag is in the list gets its readable
\* string followed by the joiner and by the readable string of the first
\* sibling in list order, for each of the ten target/sibling/joiner triples.
C15_SiblingContextAppended ==
    [][PostStep =>
        \A i \in 1..Len(exif_entries) : \A p \in SiblingPairs :
          \A k \in 1..Len(exif_entries) :
            (exif_entries[i].tag = p[1] /\ FirstWithTag(k, p[2])) =>
                result'.entries[i].value_more_readable =
                    exif_entries[i].value_more_readable \o p[3]
                        \o exif_entries[k].value_more_readable]_vars

\* C15 witness: after the pass, an XResolution reads "72/1 pixels per cm" in
\* a list that holds a "cm" ResolutionUnit before an "in" one.
C15_Witness ==
    /\ postprocessed /\ result.kind = "Ok"
    /\ \E i, k, m \in 1..Len(result.entries) :
          /\ k < m
          /\ result.entries[i].tag = "XResolution"
          /\ result.entries[i].value_more_readable = "72/1 pixels per cm"
          /\ result.entries[k].tag = "ResolutionUnit"
          /\ result.entries[k].value_more_readable = "cm"
          /\ result.entries[m].tag = "ResolutionUnit"
          /\ result.entries[m].value_more_readable = "in"

\* The first raw byte of a value is nonzero.
FirstByteNonzero(v) == v.kind = "U8" /\ Len(v.vals) > 0 /\ v.vals[1] # 0

\* C16 as stated: a GPSAltitude entry gets " below sea level" exactly when
\* some GPSAltitudeRef entry of the list has a nonzero first raw byte.
C16_BelowIffSomeRefNonzero ==
    [][PostStep =>
        \A i \in 1..Len(exif_entries) :
          exif_entries[i].tag = "GPSAltitude" =>
            LET some == \E k \in 1..Len(exif_entries) :
                           /\ exif_entries[k].tag = "GPSAltitudeRef"
                           /\ FirstByteNonzero(exif_entries[k].value)
            IN result'.entries[i].value_more_readable =
                 IF some
                 THEN exif_entries[i].value_more_readable \o " below sea level"
                 ELSE exif_entries[i].value_more_readable]_vars

\* C16 amended: a GPSAltitude entry gets " below sea level" exactly when the
\* first GPSAltitudeRef entry in list order has a nonzero first raw byte; with
\* no such sibling, or a zero first byte, the string is kept as it was, so
\* nothing about "above sea level" is ever appended.
C16_BelowIffFirstRefNonzero ==
    [][PostStep =>
        \A i \in 1..Len(exif_entries) :
          exif_entries[i].tag = "GPSAltitude" =>
            LET first == \E k \in 1..Len(exif_entries) :
                            /\ FirstWithTag(k, "GPSAltitudeRef")
                            /\ FirstByteNonzero(exif_entries[k].value)
            IN result'.entries[i].value_more_readable =
                 IF first
                 THEN exif_entries[i].value_more_readable \o " below sea level"
                 ELSE exif_entries[i].value_more_readable]_vars

\* C16 witness: after the pass, a GPSAltitude reads "100 m below sea level"
\* next to a GPSAltitudeRef, the first of the list, whose first byte is 1.
C16_Witness ==
    /\ postprocessed /\ result.kind = "Ok"
    /\ \E i, k \in 1..Len(result.entries) :
          /\ result.entries[i].tag = "GPSAltitude"
          /\ result.entries[i].value_more_readable = "100 m below sea level"
          /\ result.entries[k].tag = "GPSAltitudeRef"
          /\ result.entries[k].value.vals[1] = 1
          /\ \A j \in 1..(k - 1) : result.entries[j].tag # "GPSAltitudeRef"

\* The sibling tag the pass looks for, for a target tag.
SiblingOf(tag) ==
    IF tag = "GPSAltitude" THEN "GPSAltitudeRef"
    ELSE IF \E p \in SiblingPairs : p[1] = tag
         THEN (CHOOSE p \in SiblingPairs : p[1] = tag)[2]
    ELSE "None"

\* C17: the pass returns a list of the same length and order in which every
\* entry differs from the one before the pass in nothing but the readable
\* string, and an entry that is no target, or whose sibling is absent, keeps
\* its string.
C17_OnlyReadableStringChanges ==
    [][PostStep =>
        /\ Len(result'.entries) = Len(exif_entries)
        /\ exif_entries' = result'.entries
        /\ \A i \in 1..Len(exif_entries) :
              /\ result'.entries[i] =
                    [exif_entries[i] EXCEPT !.value_more_readable =
                         result'.entries[i].value_more_readable]
              /\ (\A k \in 1..Len(exif_entries) :
                       exif_entries[k].tag # SiblingOf(exif_entries[i].tag))
                    => result'.entries[i] = exif_entries[i]]_vars

\* C17 witness: after the pass, a list of three entries in which an
\* XResolution without ResolutionUnit kept "72/1", next to a GPSLatitude that
\* got its reference appended.
C17_Witness ==
    /\ postprocessed /\ result.kind = "Ok"
    /\ Len(result.entries) = 3
    /\ result.entries[1].tag = "XResolution"
    /\ result.entries[1].value_more_readable = "72/1"
    /\ result.entries[2].tag = "GPSLatitude"
    /\ result.entries[2].value_more_readable = "lat N"
    /\ result.entries[3].tag = "GPSLatitudeRef"

(***************************************************************************)
(* The JPEG scan                                                           *)
(***************************************************************************)
\* The scan stands at an 0xFFE1 segment that is whole and has room for the
\* six preamble bytes.
AtApp1 ==
    /\ pc = "jpeg"
    /\ Len(contents) >= offset + 4
    /\ contents[offset + 1] * 256 + contents[offset + 2] = 65505
    /\ contents[offset + 3] * 256 + contents[offset + 4] >= 8
    /\ Len(contents) >=
           offset + 2 + contents[offset + 3] * 256 + contents[offset + 4]

ExifPreamble == <<69, 120, 105, 102, 0, 0>>

\* C18: at an 0xFFE1 segment the scan goes on to parse_tiff, with the range
\* starting right after the six bytes, when the six bytes after the size
\* field are 'E','x','i','f',0,0, and for every other six bytes it returns
\* JpegWithoutExif (preamble unrecognized).
C18_OnlyExifPreambleAccepted ==
    [][AtApp1 =>
        IF Sl(contents, offset + 4, offset + 10) = ExifPreamble
        THEN pc' = "parse_tiff" /\ offset' = offset + 10
        ELSE result' = Err("JpegWithoutExif", "EXIF preamble unrecognized")]_vars

(***************************************************************************)
(* detect_type                                                             *)
(***************************************************************************)
JpegMagic(c) ==
    /\ Len(c) >= 11
    /\ Sl(c, 0, 3) = <<255, 216, 255>>
    /\ Sl(c, 6, 11) \in {<<74, 70, 73, 70, 0>>, <<69, 120, 105, 102, 0>>}

TiffMagic(c) ==
    /\ Len(c) >= 4
    /\ Sl(c, 0, 4) \in {<<73, 73, 42, 0>>, <<77, 77, 0, 42>>}

\* C19: parse_buffer takes a buffer with the JPEG magic bytes for
\* "image/jpeg", a buffer whose first four bytes are a TIFF signature for
\* "image/tiff", and fails at once with FileTypeUnknown on every other one.
C19_TypeByMagicBytes ==
    [][pc = "parse_buffer" =>
        IF JpegMagic(contents) THEN mime' = "image/jpeg"
        ELSE IF TiffMagic(contents) THEN mime' = "image/tiff"
        ELSE mime' = "" /\ result' = Err("FileTypeUnknown", "")]_vars

(***************************************************************************)
(* MakerNote                                                               *)
(***************************************************************************)
\* The bytes after the 10-byte vendor header are no TIFF: fewer than eight,
\* or no TIFF signature.
NikonNotTiff ==
    \/ Len(contents) < 18
    \/ Sl(contents, 10, 14) \notin {<<73, 73, 42, 0>>, <<77, 77, 0, 42>>}

\* The directory at the offset the fake TIFF names is not all in the blob.
NikonIfd0Truncated ==
    /\ ~NikonNotTiff
    /\ LET l == Sl(contents, 10, 14) = <<73, 73, 42, 0>>
           t == Sl(contents, 10, Len(contents))
           o == read_u32(l, Sl(t, 4, 8))
       IN \/ Len(t) < o + 2
          \/ Len(t) < o + 2 + 12 * read_u16(l, Sl(t, o, o + 2))

\* C20: nikon_makernote never panics, whatever the blob, and it leaves
\* exif_entries as it was when the blob holds no TIFF behind the vendor
\* header or the inner IFD0 is truncated.
C20_MakerNoteNeverFatal ==
    [][(pc \in {"nikon_makernote", "parse_nikon_tiff", "parse_nikon_ifd"}) =>
        /\ result'.kind # "Panic"
        /\ ((NikonNotTiff \/ NikonIfd0Truncated) =>
                exif_entries' = exif_entries)]_vars

(***************************************************************************)
(* Ascii decoding                                                          *)
(***************************************************************************)
MaxNul == 3

Zeros(n) == [i \in 1..n |-> 0]

\* The longest prefix of d that does not end in a NUL byte.
Core(d) ==
    LET last == CHOOSE i \in 0..Len(d) :
                    /\ i = 0 \/ d[i] # 0
                    /\ \A j \in (i + 1)..Len(d) : d[j] = 0
    IN SubSeq(d, 1, last)

\* C21: the Ascii value decoded from s followed by any number of NUL bytes,
\* s not ending in NUL, is the value decoded from s alone, in TagValue::new
\* and in tag_value_new; a NUL byte inside s is kept (for s of 7-bit bytes
\* the string is s itself).
C21_TrailingNulsIgnored ==
    (pc \in {"TagValue::new", "tag_value_new"} /\ fentry.format = "Ascii") =>
        LET s == Core(fentry.data) IN
        /\ \A n \in 0..MaxNul :
              LET f == [fentry EXCEPT !.data = s \o Zeros(n)] IN
              decoded = IF pc = "TagValue::new" THEN TagValue_new(f)
                        ELSE tag_value_new(f)[1]
        /\ decoded.kind = "Ascii"
        /\ (\A i \in 1..Len(s) : s[i] < 128) => decoded.vals = s

\* C21 witness: 'A',NUL,'B' followed by three NUL bytes has been decoded to
\* 'A',NUL,'B'.
C21_Witness ==
    /\ pc = "TagValue::new"
    /\ fentry.format = "Ascii"
    /\ fentry.data = <<65, 0, 66, 0, 0, 0>>
    /\ decoded.vals = <<65, 0, 66>>

(***************************************************************************)
(* Renderers                                                               *)
(***************************************************************************)
Prefix(p, s) == Len(s) >= Len(p) /\ SubSeq(s, 1, Len(p)) = p

Contains(s, p) ==
    \E i \in 1..(Len(s) - Len(p) + 1) : SubSeq(s, i, i + Len(p) - 1) = p

\* flash has returned for a 16-bit number
Flashed == pc = "flash" /\ decoded.kind = "U16" /\ Len(decoded.vals) = 1

FlashBit(k) == (decoded.vals[1] \div (2 ^ k)) % 2

\* C22: a number with bit 5 set is rendered "Does not have a flash.",
\* whatever its other bits; a number with bit 5 clear is rendered as another
\* string, which begins with "Fired. " when bit 0 is set and with
\* "Did not fire. " when it is clear.
C22_FlashBit5 ==
    Flashed =>
        /\ ~built.panicked
        /\ IF FlashBit(5) = 1
           THEN built.value_more_readable = "Does not have a flash."
           ELSE /\ built.value_more_readable # "Does not have a flash."
                /\ Prefix(IF FlashBit(0) = 1 THEN "Fired. " ELSE "Did not fire. ",
                          built.value_more_readable)

\* C22 witness: 0xFFFF, every bit set, has been rendered
\* "Does not have a flash."
C22_Witness ==
    /\ Flashed
    /\ decoded.vals[1] = 65535
    /\ built.value_more_readable = "Does not have a flash."

\* exposure_time has returned for the rational r
Exposed(r) ==
    /\ pc = "exposure_time"
    /\ decoded.kind = "URational"
    /\ Len(decoded.vals) = 1
    /\ decoded.vals[1] = r

\* C23 as stated: 1/125 is rendered "1/125 s", 1/2 is rendered "1/2.0 s" and
\* 3/1 is rendered "3.0 s".
C23_ExposureTimeExamples ==
    /\ Exposed(<<1, 125>>) => built.value_more_readable = "1/125 s"
    /\ Exposed(<<1, 2>>) => built.value_more_readable = "1/2.0 s"
    /\ Exposed(<<3, 1>>) => built.value_more_readable = "3.0 s"

\* C23 amended: 1/125 is rendered "1/125 s", 1/2 is rendered "1/2 s" (the
\* branch of numerator 1 and denominator above 1 comes first) and 3/1 is
\* rendered "3.0 s"; the reciprocal with one decimal is the form of a value
\* in [0.1, 1.0) whose numerator is not 1, as 2/4 -> "1/2.0 s", and the
\* reciprocal without decimals that of a value below 0.1, as 2/250 ->
\* "1/125 s".
C23_ExposureTimeBranches ==
    /\ Exposed(<<1, 125>>) => built.value_more_readable = "1/125 s"
    /\ Exposed(<<1, 2>>) => built.value_more_readable = "1/2 s"
    /\ Exposed(<<3, 1>>) => built.value_more_readable = "3.0 s"
    /\ Exposed(<<2, 4>>) => built.value_more_readable = "1/2.0 s"
    /\ Exposed(<<2, 250>>) => built.value_more_readable = "1/125 s"
    /\ \A r \in ExposurePool :
          Exposed(r) =>
            /\ ~built.panicked
            /\ (r[1] = 1 /\ r[2] > 1) =>
                  built.value_more_readable =
                      ToString(r[1]) \o "/" \o ToString(r[2]) \o " s"
            /\ (r[1] # 1 /\ r[2] > 0 /\ r[1] < r[2]) =>
                  Prefix("1/", built.value_more_readable)
            /\ (r[2] > 0 /\ r[1] >= r[2]) =>
                  ~Contains(built.value_more_readable, "/")

\* C23 witness: 1/2 has been rendered "1/2 s".
C23_Witness ==
    /\ Exposed(<<1, 2>>)
    /\ built.value_more_readable = "1/2 s"

\* C27: for a number with bit 5 clear, the strobe-return phrase of bits 1-2
\* is in the sentence whenever bit 0 is set and bits 1-2 are 2 or 3,
\* whatever bits 3-4 are, and the mode phrase of bits 3-4 is in the sentence
\* whatever bits 1-2 are.
C27_FlashPhrasePerField ==
    (Flashed /\ FlashBit(5) = 0) =>
        LET m12 == (decoded.vals[1] \div 2) % 4
            m34 == (decoded.vals[1] \div 8) % 4
            s == built.value_more_readable
        IN /\ (FlashBit(0) = 1 /\ m12 = 2) => Contains(s, "Strobe ret not detected. ")
           /\ (FlashBit(0) = 1 /\ m12 = 3) => Contains(s, "Strobe ret detected. ")
           /\ m34 = 1 => Contains(s, "Forced fire. ")
           /\ m34 = 2 => Contains(s, "Forced suppresion. ")
           /\ m34 = 3 => Contains(s, "Auto mode. ")

(***************************************************************************)
(* copy_data                                                               *)
(***************************************************************************)
\* The four inline bytes as a 32-bit number in the entry's byte order
InlineOffset(f) ==
    LET b == f.ifd_data IN
    IF f.le THEN b[1] + 256 * b[2] + 65536 * b[3] + 16777216 * b[4]
    ELSE b[4] + 256 * b[3] + 65536 * b[2] + 16777216 * b[1]

\* copy_data has been called on an entry as its revision's parse_ifd leaves
\* it: lib.rs reads the offset from ifd_data, types_impl.rs from data, which
\* then holds the inline bytes.
Copied ==
    \/ pc = "copy_data"
    \/ pc = "IfdEntry::copy_data" /\ fentry.data = fentry.ifd_data

Scalar(format, l, raw) ==
    CASE format = "U8" -> raw[1]
      [] format = "I8" -> read_i8(raw[1])
      [] format = "U16" -> read_u16(l, raw)
      [] format = "I16" -> read_i16(l, raw)
      [] format = "U32" -> read_u32(l, raw)
      [] format = "I32" -> read_i32(l, raw)
      [] format \in {"F32", "F64"} -> raw
      [] format = "URational" -> read_urational(l, raw)
      [] format = "IRational" -> read_irational(l, raw)

\* C25: TagValue::new on a fixed-width entry whose data holds at least
\* count elements gives an array of exactly count elements, element i read
\* from the bytes [i*size, (i+1)*size) of data in the entry's byte order;
\* also when data is the 4-byte inline field and the count takes less.
C25_ExactlyCountElements ==
    (/\ pc = "TagValue::new"
     /\ fentry.format \in FixedWidth
     /\ Len(fentry.data) >= fentry.count * IfdFormat_size(fentry.format)) =>
        LET size == IfdFormat_size(fentry.format) IN
        /\ decoded.kind = fentry.format
        /\ Len(decoded.vals) = fentry.count
        /\ \A i \in 1..fentry.count :
              decoded.vals[i] =
                  Scalar(fentry.format, fentry.le,
                         Sl(fentry.data, (i - 1) * size, i * size))

(***************************************************************************)
(* Scalar readers                                                          *)
(***************************************************************************)
Reverse(b) == [i \in 1..Len(b) |-> b[Len(b) + 1 - i]]

\* The 16-bit number of the first two bytes of contents in byte order le
U16Of == IF le THEN contents[1] + 256 * contents[2]
         ELSE contents[2] + 256 * contents[1]

\* C26: reading four bytes as little-endian gives the u32 that reading the
\* reversed bytes as big-endian gives, and the same for two bytes and the
\* u16; read_i16 and read_i32 give the two's-complement reading of the
\* unsigned number: u - 0x10000 from 0x8000 on, u - 0x100000000 from
\* 0x80000000 on, inside the range of the type.
C26_EndiannessSymmetry ==
    /\ pc = "read_u32" =>
          /\ decoded.vals = read_u32_halves(~le, Reverse(contents))
          /\ decoded.vals \in (0..65535) \X (0..65535)
    /\ pc = "read_u16" =>
          /\ decoded.vals[1] = read_u16(~le, Reverse(Sl(contents, 0, 2)))
          /\ decoded.vals[1] = U16Of
    /\ pc = "read_i16" =>
          /\ decoded.vals[1] = IF U16Of >= 32768 THEN U16Of - 65536 ELSE U16Of
          /\ decoded.vals[1] \in -32768..32767
    /\ pc = "read_i32" =>
          LET u == read_u32_halves(le, contents)
              v == decoded.vals[1]
          IN /\ v % 65536 = u[2]
             /\ (v - u[2]) \div 65536 =
                   IF u[1] >= 32768 THEN u[1] - 65536 ELSE u[1]
             /\ (v < 0) <=> (u[1] >= 32768)

\* C26 witness: FF FF FF 80 read as a little-endian i32 is 0x80FFFFFF less
\* 0x100000000, -2130706433.
C26_Witness ==
    /\ pc = "read_i32"
    /\ le
    /\ contents = <<255, 255, 255, 128>>
    /\ decoded.vals[1] = -2130706433

(***************************************************************************)
(* The registry against the internal checks of the entry parsers            *)
(***************************************************************************)
\* C28: for every 16-bit code, the descriptor of a known code carries that
\* code as its tag; a descriptor whose format is none of Ascii, Undefined,
\* Unknown has count bounds with 1 <= min <= max; an Ascii descriptor has
\* none; so neither the "Internal error" test of parse_exif_entry nor the
\* bounds test of into_exif_entry fails on any entry with that code.
C28_RegistrySelfConsistent ==
    pc = "tag_to_exif" =>
        /\ descriptor.tag # "UnknownToMe" => descriptor.code = fentry.tag
        /\ descriptor.format \notin {"Ascii", "Undefined", "Unknown"} =>
                1 <= descriptor.min /\ descriptor.min <= descriptor.max
        /\ descriptor.format = "Ascii" =>
                descriptor.min = -1 /\ descriptor.max = -1
        /\ descriptor.tag # "UnknownToMe" => ~InternalError(descriptor, fentry)
        /\ are_format_count_bounds_valid(descriptor.format, descriptor.min)

\* C28 witness: ExposureTime, 0x829a, was looked up: a URational with the
\* bounds 1..1
C28_Witness ==
    /\ pc = "tag_to_exif"
    /\ fentry.tag = 33434
    /\ descriptor.format = "URational"
    /\ descriptor.min = 1

(***************************************************************************)
(* The JPEG marker scan                                                    *)
(***************************************************************************)
\* An iteration that does not return moves the offset on by 4 or more, and
\* the scan ends, with the range of the embedded TIFF or with an error
ScanAdvancesAndEnds ==
    /\ [][(pc = "scan" /\ pc' = "scan") => offset' >= offset + 4]_vars
    /\ <>(pc = "scanned")
    /\ [](pc = "scanned" => result.kind \in {"Ok", "Err"})

\* C29 as stated: the marker scan ends on every buffer, with Ok or with an
\* error (JpegWithoutExif); an iteration that does not return moves the
\* offset on by 4 or more; and the loop runs at most len/4 iterations.
C29_ScanWithinQuarterLen ==
    /\ ScanAdvancesAndEnds
    /\ [](4 * idx <= Len(contents))

\* C29: the marker scan ends on every buffer, with Ok or with an error
\* (JpegWithoutExif); an iteration that does not return moves the offset on
\* by 4 or more; and the loop runs at most (len + 1)/4 iterations: the
\* first one begins at offset 2, and the last one needs only offset < len.
C29_ScanTerminates ==
    /\ ScanAdvancesAndEnds
    /\ [](4 * idx <= Len(contents) + 1)

\* C29 witness: three iterations on a buffer of 11 bytes, two segments of
\* four bytes stepped over and the third one cut short
C29_Witness ==
    /\ pc = "scanned"
    /\ Len(contents) = 11
    /\ idx = 3
    /\ result.extra = "JPEG truncated in marker header"

\* C30: when the marker scan succeeds with (offset, size), offset >= 12 and
\* offset + size <= the length of the buffer; parse_buffer then passes the
\* slice contents[offset .. offset+size] to parse_tiff, and never fails on
\* the slice; the offset of a success is not 0.
C30_ScanRangeInBounds ==
    [][(pc = "jpeg" /\ scan_at(contents, offset).kind = "Ok") =>
        LET r == scan_at(contents, offset) IN
        /\ r.offset >= 12
        /\ r.size >= 0
        /\ r.offset + r.size <= Len(contents)
        /\ pc' = "parse_tiff"
        /\ offset' = r.offset
        /\ tiff' = Sl(contents, r.offset, r.offset + r.size)
        /\ Len(tiff') = r.size]_vars

\* C30 witness: the 0xFFE1 segment comes right after SOI and ends with the
\* buffer: offset 12, and offset + size is the length of the buffer
C30_Witness ==
    /\ pc = "parse_tiff"
    /\ mime = "image/jpeg"
    /\ offset = 12
    /\ offset + Len(tiff) = Len(contents)
    /\ Len(tiff) > 0

====
